---- MODULE Spec2Model ----
(***************************************************************************)
(* A model of pubmed_stream/downloader.py: the shared RateLimiter, the     *)
(* search client esearch_pmc, the fetch client efetch_pmc and the          *)
(* coordinator search_and_download with its thread pool, and of the        *)
(* text-field utility examples/utils/manage_text_field.py, which rewrites  *)
(* the record files efetch_pmc wrote.                                      *)
(*                                                                         *)
(* Time is counted in whole seconds.  The code uses clock readings only    *)
(* through their differences, so the model keeps every reading relative    *)
(* to the present: time.monotonic() reads 0 at every step, a stamp taken   *)
(* d seconds ago is -d, and a passing second (Tick) moves every stamp one  *)
(* second into the past.  Stamps older than min_interval are kept as       *)
(* -min_interval: the code only tests wait_time > 0, which no older stamp  *)
(* can change.                                                             *)
(* Identifiers are token sequences: <<7>> is the string "7" and            *)
(* <<"PMC", 7>> is the string "PMC7".                                      *)
(***************************************************************************)
EXTENDS Integers, Sequences, FiniteSets, TLC

\* ---------------------------------------------------------------- bounds
\* Largest rate_limit argument tried, in seconds.
MaxInterval == 2
\* wait() calls each thread makes in the limiter harness.
MaxCalls == 2

\* ------------------------------------------------------ program constants
MAX_RETRIES == 3
RETRY_DELAY == 2

\* Thread 0 is the coordinating thread, the others are the pool's threads.
Workers == {1, 2}
Threads == {0} \cup Workers
NoThread == -1

VARIABLES
    min_interval,   \* RateLimiter._min_interval
    last_request,   \* RateLimiter._last_request, relative to the present
    lock,           \* RateLimiter._lock: the holding thread, or NoThread
    pc,             \* pc[t]: where thread t stands
    frame,          \* frame[t]: the function thread t called wait() from
    sleep,          \* sleep[t]: seconds thread t's time.sleep() still lasts
    calls,          \* calls[t]: wait() calls thread t's current call has begun
    grants,         \* history of the stamps written to _last_request
    returns,        \* history of the returns from wait()
    sends,          \* history of the HTTP requests sent
    retries,        \* the retries argument of esearch_pmc and efetch_pmc
    pmcid,          \* pmcid[t]: the pmcid argument of thread t's efetch_pmc
    attempt,        \* attempt[t]: the loop variable of the retry loop
    naps,           \* naps[t]: retry sleeps thread t's current call has begun
    requests,       \* requests[t]: HTTP requests thread t's current call sent
    sent,           \* sent[t]: the id parameter of those requests, <<>> before
                    \* the first
    granted,        \* granted[t]: stamps wait() wrote for t's current call
    had,            \* had[t]: the record file existed when t's call began
    result,         \* result[t]: what thread t's efetch_pmc call returned
    disk,           \* disk[p]: the record file p of the destination
    out_dir,        \* the destination directory: "absent", "present", or
                    \* "blocked" when it is absent and cannot be created
    output_dir,     \* the base directory search_and_download is given, of
                    \* which out_dir is the keyword's subdirectory: "absent",
                    \* "present", or "blocked" when it cannot be created
    writes,         \* writes[p]: times write_text created or changed file p
    service,        \* what the remote service and the disk answer, in order
    max_results,    \* the max_results argument of esearch_pmc, sent as retmax
    search,         \* how the esearch_pmc call ended: "no", "returned", "raised"
    pmcids,         \* the identifier list esearch_pmc returned
    total_found,    \* the total count esearch_pmc returned
    use_concurrent, \* the use_concurrent argument of search_and_download
    max_workers,    \* the max_workers argument of search_and_download
    queue,          \* the pool's work queue: positions of pmcids, in order
    job,            \* job[t]: the position of pmcids thread t works on
    outcome,        \* outcome[i]: what efetch_pmc returned or raised for
                    \* pmcids[i]; in the pool, the state of its future
    yielded,        \* the positions as_completed has yielded
    invoked,        \* invoked[i]: efetch_pmc calls made for pmcids[i]
    successful,     \* the counters of search_and_download
    unavailable,
    errors,
    skipped,
    stats,          \* the DownloadStats search_and_download returns
    owned_session,  \* whether search_and_download created the session itself
    session,        \* the HTTP session: "none" before it is made, "open" or
                    \* "closed"
    fmt,            \* the fmt argument of efetch_pmc
    include_text,   \* the include_text argument of efetch_pmc
    xml_text,       \* the body of a 200 response that is a document; the
                    \* argument of extract_metadata_from_pmc_xml
    records,        \* records[p]: the payload last written to record file p
    metadata,       \* what extract_metadata_from_pmc_xml returned or raised
    plain,          \* the argument and the value of a strip_xml_tags call
    managed,        \* what the last call of the text-field utility returned
    exit_code       \* the value main() of the command line returns

limVars == <<min_interval, last_request, lock>>
thrVars == <<pc, frame, sleep, calls>>
hisVars == <<grants, returns, sends>>
argVars == <<retries, service, max_results>>
fetVars == <<pmcid, attempt, naps, requests, sent, granted, had, result>>
envVars == <<disk, writes, out_dir, output_dir>>
seaVars == <<search, pmcids, total_found>>
poolVars == <<use_concurrent, max_workers, queue, job, outcome, yielded, invoked>>
cntVars == <<successful, unavailable, errors, skipped>>
sesVars == <<owned_session, session>>
runVars == <<poolVars, cntVars, stats, sesVars>>
recVars == <<fmt, include_text, xml_text, records, metadata, plain, managed>>

vars == <<limVars, thrVars, hisVars, argVars, fetVars, envVars, seaVars, runVars,
          recVars, exit_code>>

Min(a, b) == IF a <= b THEN a ELSE b
Max(a, b) == IF a >= b THEN a ELSE b

\* A thread in time.sleep() takes no step.
Awake(t) == sleep[t] = 0

\* ------------------------------------------------------------- histories
\* A history of events keeps the time of the latest event (relative to the
\* present, like every stamp) and the smallest distance seen between two
\* consecutive events, both counted up to min_interval.
NoEvents == [last |-> -min_interval, gap |-> min_interval]

\* An event happens now.
Record(h) == [last |-> 0, gap |-> Min(h.gap, 0 - h.last)]

\* A second passes.
Age(h) == [h EXCEPT !.last = Max(@ - 1, -min_interval)]

\* ------------------------------------------------------------ RateLimiter
\* __init__: self._min_interval = max(0.0, min_interval)
RateLimiterInit(rate_limit) == Max(0, rate_limit)

\* A wait() that returns at once whatever the interval.
WaitEntrySkip == "w_ret"

\* A wait() that takes the lock whatever the interval.
WaitEntryLock == "w_lock"

\* wait(), line 71: a limiter without interval returns at once.  At "w_ret"
\* wait() is about to return: the return and the caller's next statement
\* are one step of the caller.
WaitEntry == IF min_interval <= 0 THEN "w_ret" ELSE "w_lock"

\* wait(), line 75.
WaitTimeNoInterval(last, now) == last - now
WaitTime(last, now) == (last + min_interval) - now

\* with self._lock: now = time.monotonic(); wait_time = ...;
\* if wait_time > 0: time.sleep(wait_time)
WaitAcquire(t) ==
    /\ pc[t] = "w_lock"
    /\ Awake(t)
    /\ lock = NoThread
    /\ lock' = t
    /\ sleep' = [sleep EXCEPT ![t] = Max(0, WaitTime(last_request, 0))]
    /\ pc' = [pc EXCEPT ![t] = "w_stamp"]
    /\ UNCHANGED <<min_interval, last_request, frame, calls>>
    /\ UNCHANGED <<hisVars, argVars, fetVars, envVars, seaVars, runVars>>
    /\ UNCHANGED <<recVars, exit_code>>

\* A wait() that returns without releasing the lock.
WaitStampKeepsLock(t) ==
    /\ pc[t] = "w_stamp"
    /\ Awake(t)
    /\ lock = t
    /\ last_request' = 0
    /\ grants' = Record(grants)
    /\ lock' = lock
    /\ granted' = [granted EXCEPT ![t] = @ + 1]
    /\ pc' = [pc EXCEPT ![t] = "w_ret"]
    /\ UNCHANGED <<min_interval, frame, sleep, calls, returns, sends>>
    /\ UNCHANGED <<pmcid, attempt, naps, requests, had, result>>
    /\ UNCHANGED <<argVars, envVars, seaVars, runVars>>
    /\ UNCHANGED <<recVars, exit_code>>
    /\ UNCHANGED sent

\* The sleep, if any, is over: self._last_request = time.monotonic(), and the
\* lock is released on leaving the with block.
WaitStamp(t) ==
    /\ pc[t] = "w_stamp"
    /\ Awake(t)
    /\ lock = t
    /\ last_request' = 0
    /\ grants' = Record(grants)
    /\ lock' = NoThread
    /\ granted' = [granted EXCEPT ![t] = @ + 1]
    /\ pc' = [pc EXCEPT ![t] = "w_ret"]
    /\ UNCHANGED <<min_interval, frame, sleep, calls, returns, sends>>
    /\ UNCHANGED <<pmcid, attempt, naps, requests, had, result>>
    /\ UNCHANGED <<argVars, envVars, seaVars, runVars>>
    /\ UNCHANGED <<recVars, exit_code>>
    /\ UNCHANGED sent

\* One second passes on the monotonic clock: every stamp is a second older,
\* every sleep a second shorter.
Tick ==
    /\ last_request' = Max(last_request - 1, -min_interval)
    /\ sleep' = [t \in Threads |-> Max(sleep[t] - 1, 0)]
    /\ grants' = Age(grants)
    /\ returns' = Age(returns)
    /\ sends' = Age(sends)
    /\ UNCHANGED <<min_interval, lock, pc, frame, calls>>
    /\ UNCHANGED <<argVars, fetVars, envVars, seaVars, runVars>>
    /\ UNCHANGED <<recVars, exit_code>>

\* An attempt that goes to session.get without calling wait().
BeginAttemptNoWait(t) ==
    /\ UNCHANGED calls
    /\ pc' = [pc EXCEPT ![t] = "w_ret"]

\* Lines 178 and 435: every attempt of esearch_pmc and of efetch_pmc, the
\* first and the retries alike, begins by calling rate_limiter.wait().
BeginAttempt(t) ==
    /\ calls' = [calls EXCEPT ![t] = @ + 1]
    /\ pc' = [pc EXCEPT ![t] = WaitEntry]

\* ------------------------------------------------- limiter harness threads
\* wait() has returned to a thread of the harness.
Resume(t) ==
    /\ pc[t] = "w_ret"
    /\ frame[t] = "caller"
    /\ Awake(t)
    /\ returns' = Record(returns)
    /\ pc' = [pc EXCEPT ![t] = "idle"]
    /\ UNCHANGED <<limVars, frame, sleep, calls, grants, sends>>
    /\ UNCHANGED <<argVars, fetVars, envVars, seaVars, runVars>>
    /\ UNCHANGED <<recVars, exit_code>>

\* A thread sharing the limiter calls wait().
CallWait(t) ==
    /\ pc[t] = "idle"
    /\ calls[t] < MaxCalls
    /\ calls' = [calls EXCEPT ![t] = @ + 1]
    /\ pc' = [pc EXCEPT ![t] = WaitEntry]
    /\ UNCHANGED <<limVars, frame, sleep, hisVars, argVars, fetVars, envVars, seaVars, runVars>>
    /\ UNCHANGED <<recVars, exit_code>>

InitLimiterState ==
    /\ min_interval \in {RateLimiterInit(r) : r \in -1..MaxInterval}
    /\ last_request \in -min_interval..0
    /\ lock = NoThread
    /\ grants = NoEvents
    /\ returns = NoEvents
    /\ sends = NoEvents

\* ------------------------------------------------------------ identifiers
Ids == {<<"1">>, <<"2">>, <<"PMC", "1">>}

StartsWithPMC(s) == Len(s) > 0 /\ s[1] = "PMC"

NotPMC(tok) == tok # "PMC"

\* A numeric form that keeps the prefix.
PmcidNumericKeep(p) == p

\* str(pmcid).replace("PMC", "") if str(pmcid).startswith("PMC") else str(pmcid)
pmcid_numeric(p) == IF StartsWithPMC(p) THEN SelectSeq(p, NotPMC) ELSE p

\* f"PMC{pmcid_numeric}" if not pmcid_numeric.startswith("PMC") else pmcid_numeric
pmcid_display(n) == IF ~StartsWithPMC(n) THEN <<"PMC">> \o n ELSE n

\* out_dir / f"{pmcid_display}.json"
json_path(p) == pmcid_display(pmcid_numeric(p))

Paths == {json_path(p) : p \in Ids}

\* json_path.exists()
ExistsNever(p) == FALSE
Exists(p) == disk[p] # "none"

\* The states of the destination directory that holds the record files d:
\* a directory holding a file is present.
Dirs(d) ==
    IF \E p \in Paths : d[p] # "none" THEN {"present"}
    ELSE {"absent", "present", "blocked"}

\* ------------------------------------------------- one attempt's environment
\* What one attempt of efetch_pmc meets:
\*   transport    session.get raises a requests.RequestException
\*   s429, sOther a response with status 429, with another status but 200
\*   malformed    status 200, a body ET.fromstring rejects
\*   errwrap      status 200, root pmc-articleset with an error child
\*   doc          status 200, a well-formed document that is no error
\*                wrapper, and write_text succeeds
\*   doc_noopen   as doc, but write_text raises OSError before the file exists
\*   doc_partial  as doc, but write_text raises OSError after creating the file
\*   crash        an exception efetch_pmc has no handler for
Transient == {"transport", "s429", "sOther", "malformed"}
Outcomes == Transient \cup {"errwrap", "doc", "doc_noopen", "doc_partial", "crash"}

\* A service that may answer anything.
AnyService == <<"*">>

\* A service that may answer anything, but whose search responses report as
\* count the length of their idlist.
ExactService == <<"=">>

\* The answers the k-th request of a call can get.
Replies(k) ==
    IF service \in {AnyService, ExactService} THEN Outcomes
    ELSE IF k <= Len(service) THEN {service[k]} ELSE {}

\* --------------------------------------------------------------- documents
\* A document is kept by what extract_metadata_from_pmc_xml reads of it:
\*   kind     "nottext" for an argument that is no text (None, a number),
\*            "malformed" for text ET.fromstring rejects, "tree" otherwise
\*   root     the tag of the root element
\*   article  whether the root has a child element article
\*   front    whether the article, the root itself when its tag is article,
\*            has a child element front
\*   jmeta    the text of journal-title and of the journal-id elements of
\*            types nlm-ta and iso-abbrev under journal-meta
\*   ameta    whether article-meta is there, the text of article-title, the
\*            article-id elements in document order, the pub-date elements
\*            of types epub and collection, the contrib elements of the
\*            contrib-group elements in document order, the first abstract
\*            element, and the kwd elements of the kwd-group elements in
\*            document order
\* A text that is Missing has no element; "" is an element without text.
Missing == "(missing)"
NotText == [kind |-> "nottext"]
Malformed == [kind |-> "malformed"]

\* str.strip() and \s of the re module: the whitespace among the characters
\* of the model.
Whitespace == {" ", "\n"}

\* A text kept character by character is a sequence of one-character
\* strings, and "" is the empty sequence.
RECURSIVE LStrip(_)
LStrip(s) ==
    IF s # <<>> /\ Head(s) \in Whitespace THEN LStrip(Tail(s)) ELSE s

RECURSIVE RStrip(_)
RStrip(s) ==
    IF s # <<>> /\ s[Len(s)] \in Whitespace
    THEN RStrip(SubSeq(s, 1, Len(s) - 1)) ELSE s

\* str.strip()
Strip(s) == RStrip(LStrip(s))

Roots == {"article", "pmc-articleset", "other"}
JournalMetas == [title : {Missing, "", "J"}, nlm_ta : {Missing, "", "N"},
                 iso_abbrev : {Missing, "", "I"}]

\* The article-id elements: the pub-id-type attribute and the text.
MaxArticleIds == 2
ArticleIds == [type : {"pmid", "pmcid", "doi", "publisher-id"},
               value : {"", "a", "b"}]
ArticleIdLists ==
    UNION {[1..n -> ArticleIds] : n \in 0..MaxArticleIds}

\* A pub-date element, by the text of its year, month and day children;
\* NoDate where article-meta has no pub-date of the type.
NoDate == [there |-> FALSE, year |-> Missing, month |-> Missing,
           day |-> Missing]
EpubDates ==
    {NoDate} \cup [there : {TRUE}, year : {Missing, "2020"},
                   month : {Missing, "05"}, day : {Missing, "01"}]
CollDates ==
    {NoDate} \cup [there : {TRUE}, year : {Missing, "2019"},
                   month : {Missing, "03"}, day : {Missing}]

\* A contrib element: the contrib-type attribute, whether it has a name
\* child, and the name's surname and given-names texts and initials
\* attribute, each "" when it is not there.
MaxContribs == 2
NoName == [there |-> FALSE, surname |-> <<>>, given |-> <<>>,
           initials |-> <<>>]
Names ==
    {NoName} \cup [there : {TRUE}, surname : {<<>>, <<"D">>, <<"R">>},
                   given : {<<>>, <<"J">>, <<" ">>},
                   initials : {<<>>, <<"I">>}]
Contribs == [type : {"author", "editor"}, name : Names]
ContribLists == UNION {[1..n -> Contribs] : n \in 0..MaxContribs}

\* The first abstract child of article-meta, by the pieces of text
\* itertext() yields of it in document order, each kept character by
\* character; NoAbstract where article-meta has none.
MaxPieces == 2
NoAbstract == [there |-> FALSE, pieces |-> <<>>]
Abstracts ==
    {NoAbstract}
    \cup [there : {TRUE},
          pieces : UNION {[1..n -> {<<"A">>, <<"\n">>, <<"B", " ">>}] :
                            n \in 0..MaxPieces}]

\* The kwd elements: the text of each, all its pieces joined, kept character
\* by character.
MaxKwds == 2
KwdLists ==
    UNION {[1..n -> {<<>>, <<"k">>, <<" ">>, <<" ", "m", " ">>}] :
             n \in 0..MaxKwds}

\* article-meta with a title and nothing else, or absent.
PlainMeta(present, title) ==
    [present |-> present, title |-> title, ids |-> <<>>, epub |-> NoDate,
     coll |-> NoDate, contribs |-> <<>>, abstract |-> NoAbstract,
     kwds |-> <<>>]

\* The article-meta elements of the inputs: the plain ones, and those of one
\* family of children each.
ArticleMetas ==
    {PlainMeta(TRUE, t) : t \in {Missing, "", "T"}}
    \cup {PlainMeta(FALSE, Missing)}
    \cup {[PlainMeta(TRUE, "T") EXCEPT !.ids = l] : l \in ArticleIdLists}
    \cup {[PlainMeta(TRUE, "T") EXCEPT !.epub = e, !.coll = c] :
            e \in EpubDates, c \in CollDates}
    \cup {[PlainMeta(TRUE, "T") EXCEPT !.contribs = l] : l \in ContribLists}
    \cup {[PlainMeta(TRUE, "T") EXCEPT !.abstract = a, !.kwds = k] :
            a \in Abstracts, k \in KwdLists}

PlainTrees ==
    [kind : {"tree"}, root : Roots, article : BOOLEAN, front : BOOLEAN,
     jmeta : JournalMetas,
     ameta : {a \in ArticleMetas : a = PlainMeta(a.present, a.title)}]

\* The documents of the inputs: every shape of the tree around a plain
\* article-meta, and every article-meta in an article with front matter.
Trees ==
    PlainTrees
    \cup [kind : {"tree"}, root : {"article"}, article : {FALSE},
          front : {TRUE},
          jmeta : {[title |-> "J", nlm_ta |-> "N", iso_abbrev |-> "I"]},
          ameta : ArticleMetas]
Inputs == {NotText, Malformed} \cup Trees

\* ------------------------------------------- extract_metadata_from_pmc_xml
\* ET.fromstring(xml_text), line 222: the exception it raises, or "parsed".
FromString(x) ==
    CASE x.kind = "nottext" -> "TypeError"
      [] x.kind = "malformed" -> "ParseError"
      [] OTHER -> "parsed"

\* An extractor that catches what efetch_pmc catches of the parser.
ExtractCatchesParseError(e) == e = "ParseError"

\* except Exception, line 223: both exceptions derive from Exception.
ExtractCatches(e) == e \in {"ParseError", "TypeError"}

\* Whether the call leaves extract_metadata_from_pmc_xml by an exception.
ExtractRaises(x) == FromString(x) # "parsed" /\ ~ExtractCatches(FromString(x))

\* A value Python takes as true: an element that is there, with text.
Truthy(v) == v # Missing /\ v # ""

\* metadata[k] = v, stored when keep holds.
Field(k, v, keep) == IF keep THEN {<<k, v>>} ELSE {}

\* Lines 239-272: the journal fields, and the generic journal key.
JournalFields(j) ==
    Field("journal_title", j.title, Truthy(j.title))
    \cup Field("journal_nlm_ta", j.nlm_ta, Truthy(j.nlm_ta))
    \cup Field("journal_iso_abbrev", j.iso_abbrev, Truthy(j.iso_abbrev))
    \cup Field("journal",
               IF Truthy(j.title) THEN j.title
               ELSE IF Truthy(j.iso_abbrev) THEN j.iso_abbrev ELSE j.nlm_ta,
               Truthy(j.title) \/ Truthy(j.iso_abbrev) \/ Truthy(j.nlm_ta))

\* metadata[k] = v on the record m: the key's earlier value is replaced.
Put(m, k, v) == {e \in m : e[1] # k} \cup {<<k, v>>}

\* Lines 278-287: the loop over the article-id elements from the i-th on,
\* each entry of the three types assigned to its key.
RECURSIVE ArticleIdLoop(_, _, _)
ArticleIdLoop(ids, i, m) ==
    IF i > Len(ids) THEN m
    ELSE ArticleIdLoop(ids, i + 1,
             IF ids[i].type \in {"pmid", "pmcid", "doi"}
             THEN Put(m, ids[i].type, ids[i].value) ELSE m)

IdFields(ids) == ArticleIdLoop(ids, 1, {})

\* Lines 298-316: pub_year, pub_month and pub_day, None kept as Missing:
\* the epub date's children when the epub date is there, the collection
\* date's year otherwise.
PubYear(e, c) == IF e.there THEN e.year ELSE IF c.there THEN c.year ELSE Missing
PubMonth(e, c) == IF e.there THEN e.month ELSE Missing
PubDay(e, c) == IF e.there THEN e.day ELSE Missing

\* Lines 320-333: the flat fields, and the nested pub_date, which is built
\* under "if pub_year is not None".
DateFields(e, c) ==
    LET y == PubYear(e, c)
        m == PubMonth(e, c)
        d == PubDay(e, c)
    IN  Field("year", y, y # Missing)
        \cup Field("month", m, m # Missing)
        \cup Field("day", d, d # Missing)
        \cup Field("pub_date",
                   Field("year", y, TRUE) \cup Field("month", m, m # Missing)
                   \cup Field("day", d, d # Missing),
                   y # Missing)

\* A display name that never falls back to the initials.
DisplayNameNoInitials(n) ==
    LET surname == Strip(n.surname)
        given == Strip(n.given)
    IN  IF given # <<>> THEN Strip(surname \o <<" ">> \o given) ELSE surname

\* Lines 343-351: full, from the name element n.
DisplayName(n) ==
    LET surname == Strip(n.surname)
        given == Strip(n.given)
        initials == Strip(n.initials)
    IN  IF given # <<>> THEN Strip(surname \o <<" ">> \o given)
        ELSE IF initials # <<>> THEN Strip(surname \o <<" ">> \o initials)
        ELSE surname

\* Lines 337-353: the loop over the contrib elements from the i-th on, with
\* the authors list so far.
RECURSIVE AuthorLoop(_, _, _)
AuthorLoop(cs, i, authors) ==
    IF i > Len(cs) THEN authors
    ELSE AuthorLoop(cs, i + 1,
             IF cs[i].type # "author" THEN authors
             ELSE IF ~cs[i].name.there THEN authors
             ELSE IF DisplayName(cs[i].name) # <<>>
                  THEN Append(authors, DisplayName(cs[i].name))
             ELSE authors)

\* Lines 336-355: if authors: metadata["authors"] = authors
AuthorFields(cs) ==
    Field("authors", AuthorLoop(cs, 1, <<>>), AuthorLoop(cs, 1, <<>>) # <<>>)

\* " ".join(pieces), from the i-th piece on.
RECURSIVE JoinSpace(_, _)
JoinSpace(ps, i) ==
    IF i > Len(ps) THEN <<>>
    ELSE IF i = Len(ps) THEN ps[i]
    ELSE ps[i] \o <<" ">> \o JoinSpace(ps, i + 1)

\* Lines 357-360: the abstract, stored whenever the element is there, as
\* its pieces of text joined by single spaces and trimmed.
AbstractFields(ab) ==
    Field("abstract", Strip(JoinSpace(ab.pieces, 1)), ab.there)

\* Lines 362-367: the loop over the kwd elements from the i-th on, with the
\* keywords list so far: a keyword whose trimmed text is empty is left out.
RECURSIVE KeywordLoop(_, _, _)
KeywordLoop(ks, i, keywords) ==
    IF i > Len(ks) THEN keywords
    ELSE KeywordLoop(ks, i + 1,
             IF Strip(ks[i]) # <<>> THEN Append(keywords, Strip(ks[i]))
             ELSE keywords)

\* Lines 362-369: if keywords: metadata["keywords"] = keywords
KeywordFields(ks) ==
    Field("keywords", KeywordLoop(ks, 1, <<>>), KeywordLoop(ks, 1, <<>>) # <<>>)

\* Lines 274-369: nothing without article-meta; the identifiers, the title,
\* stored whenever article-title is there, the dates, the authors, the
\* abstract and the keywords.
ArticleFields(a) ==
    IF ~a.present THEN {}
    ELSE IdFields(a.ids)
         \cup Field("title", a.title, a.title # Missing)
         \cup DateFields(a.epub, a.coll)
         \cup AuthorFields(a.contribs)
         \cup AbstractFields(a.abstract)
         \cup KeywordFields(a.kwds)

\* article = root.find("article") if root.tag != "article" else root
HasArticle(x) == x.root = "article" \/ x.article

\* The metadata record, as the set of its <<key, value>> pairs.
extract_metadata_from_pmc_xml(x) ==
    IF FromString(x) # "parsed" THEN {}
    ELSE IF ~HasArticle(x) THEN {}
    ELSE IF ~x.front THEN {}
    ELSE JournalFields(x.jmeta) \cup ArticleFields(x.ameta)

NoMetadata == [raised |-> FALSE, value |-> {}]

\* One call of extract_metadata_from_pmc_xml on xml_text.
Extract ==
    /\ pc[0] = "x_start"
    /\ metadata' = [raised |-> ExtractRaises(xml_text),
                    value |-> IF ExtractRaises(xml_text) THEN {}
                              ELSE extract_metadata_from_pmc_xml(xml_text)]
    /\ pc' = [pc EXCEPT ![0] = "x_ret"]
    /\ UNCHANGED <<limVars, frame, sleep, calls, hisVars, argVars, fetVars>>
    /\ UNCHANGED <<envVars, seaVars, runVars, exit_code>>
    /\ UNCHANGED <<fmt, include_text, xml_text, records, plain, managed>>

\* ---------------------------------------------------------- strip_xml_tags
\* Bound on the length of the markup given to strip_xml_tags.
MaxLen == 6

\* The characters of the markup: the angle brackets, a letter, and two
\* whitespace characters.
Chars == {"<", ">", "a", " ", "\n"}
Markups == UNION {[1..n -> Chars] : n \in 0..MaxLen}

\* The position of the first ">" of s from position i on, 0 without one.
RECURSIVE FirstGt(_, _)
FirstGt(s, i) ==
    IF i > Len(s) THEN 0 ELSE IF s[i] = ">" THEN i ELSE FirstGt(s, i + 1)

\* re.sub(r"<[^>]+>", " ", xml_text), line 207: from the left, each "<"
\* followed by one or more characters other than ">" and then by ">" is
\* replaced, with what it encloses, by one space.
RECURSIVE SubTags(_)
SubTags(s) ==
    IF s = <<>> THEN <<>>
    ELSE IF Head(s) = "<" /\ FirstGt(s, 2) > 2
    THEN <<" ">> \o SubTags(SubSeq(s, FirstGt(s, 2) + 1, Len(s)))
    ELSE <<Head(s)>> \o SubTags(Tail(s))

\* re.sub(r"\s+", " ", text), line 208: each run of whitespace becomes one
\* space.
RECURSIVE Collapse(_)
Collapse(s) ==
    IF s = <<>> THEN <<>>
    ELSE IF Head(s) \in Whitespace THEN <<" ">> \o Collapse(LStrip(s))
    ELSE <<Head(s)>> \o Collapse(Tail(s))

\* A strip_xml_tags that leaves the whitespace between the ends as it is.
StripNoCollapse(x) == Strip(SubTags(x))

\* Lines 202-209.
strip_xml_tags(x) == Strip(Collapse(SubTags(x)))

NoText == [xml |-> <<>>, text |-> <<>>, done |-> FALSE]

\* One call of strip_xml_tags on plain.xml.
StripTags ==
    /\ pc[0] = "t_start"
    /\ plain' = [plain EXCEPT !.text = strip_xml_tags(plain.xml),
                              !.done = TRUE]
    /\ pc' = [pc EXCEPT ![0] = "t_ret"]
    /\ UNCHANGED <<limVars, frame, sleep, calls, hisVars, argVars, fetVars>>
    /\ UNCHANGED <<envVars, seaVars, runVars, exit_code>>
    /\ UNCHANGED <<fmt, include_text, xml_text, records, metadata, managed>>

\* ------------------------------------------------------------- the record
\* The fmt values: the five the command line offers, and "html" for any
\* other string a caller of efetch_pmc passes.
Fmts == {"xml", "text", "both", "json", "txt", "html"}

\* A normalisation that leaves the legacy aliases as they are.
NormalizeFmtNone(f) == f

\* Lines 410-411: if fmt == "json" or fmt == "txt": fmt = "text"
NormalizeFmt(f) == IF f = "json" \/ f = "txt" THEN "text" ELSE f

\* Lines 489-500: the optional keys of the payload.
OptionalKeys(f, inc) ==
    (IF NormalizeFmt(f) \in {"xml", "both"} THEN {"xml"} ELSE {})
    \cup (IF NormalizeFmt(f) \in {"text", "both"} /\ inc THEN {"text"} ELSE {})

RequiredKeys == {"pmcid", "source", "download_date", "metadata"}

\* Whether strip_xml_tags(resp.text), lines 495 and 500, is the empty
\* string: the document x, which holds no elements but those the model
\* keeps of it, has no character data other than whitespace in its journal
\* fields and in its article-meta.
Blank(x) ==
    LET j == x.jmeta
        a == x.ameta
    IN  ~(/\ x.kind = "tree" /\ HasArticle(x) /\ x.front
          /\ \/ Truthy(j.title) \/ Truthy(j.nlm_ta) \/ Truthy(j.iso_abbrev)
             \/ /\ a.present
                /\ \/ Truthy(a.title)
                   \/ \E i \in DOMAIN a.ids : a.ids[i].value # ""
                   \/ \E d \in {a.epub, a.coll} :
                         /\ d.there
                         /\ Truthy(d.year) \/ Truthy(d.month) \/ Truthy(d.day)
                   \/ \E i \in DOMAIN a.contribs :
                         /\ a.contribs[i].name.there
                         /\ \/ Strip(a.contribs[i].name.surname) # <<>>
                            \/ Strip(a.contribs[i].name.given) # <<>>
                   \/ \E i \in DOMAIN a.abstract.pieces :
                         Strip(a.abstract.pieces[i]) # <<>>
                   \/ \E i \in DOMAIN a.kwds : Strip(a.kwds[i]) # <<>>)

\* Lines 475-500: the payload efetch_pmc builds for identifier p from the
\* document x; blank tells whether the document's text, the value of the
\* key text when the record has it, is empty.
Payload(p, f, inc, x) ==
    [keys |-> RequiredKeys \cup OptionalKeys(f, inc),
     pmcid |-> pmcid_display(pmcid_numeric(p)),
     source |-> "PMC",
     metadata |-> extract_metadata_from_pmc_xml(x),
     blank |-> Blank(x)]

NoRecord ==
    [keys |-> {}, pmcid |-> <<>>, source |-> "", metadata |-> {},
     blank |-> TRUE]

\* A document of the archive: an article with journal and title.
DefaultDoc ==
    [kind |-> "tree", root |-> "article", article |-> FALSE, front |-> TRUE,
     jmeta |-> [title |-> "J", nlm_ta |-> "N", iso_abbrev |-> "I"],
     ameta |-> PlainMeta(TRUE, "T")]

\* The records of a destination whose files are d, written by earlier runs.
Stored(d) ==
    [p \in Paths |-> IF d[p] = "none" THEN NoRecord
                     ELSE Payload(p, "text", TRUE, DefaultDoc)]

\* The same article with an abstract, and with two keywords.
AbstractDoc ==
    [DefaultDoc EXCEPT
       !.ameta.abstract = [there |-> TRUE, pieces |-> << <<"A">> >>]]
KeywordsDoc ==
    [DefaultDoc EXCEPT !.ameta.kwds = << <<"k">>, <<" ", "m", " ">> >>]

\* A document without character data.
BlankDoc == [DefaultDoc EXCEPT !.ameta = PlainMeta(FALSE, Missing),
                               !.jmeta = [title |-> Missing, nlm_ta |-> Missing,
                                          iso_abbrev |-> Missing]]

NoManaged == [ok |-> FALSE, message |-> "none"]

\* The arguments a run passes by default, and nothing extracted.
DefaultRecordState ==
    /\ fmt = "text"
    /\ include_text = TRUE
    /\ xml_text = DefaultDoc
    /\ metadata = NoMetadata
    /\ exit_code = 0
    /\ plain = NoText
    /\ managed = NoManaged

\* -------------------------------------------------------------- efetch_pmc
None == [ok |-> FALSE, status |-> "none"]
Raised == [ok |-> FALSE, status |-> "raised"]

\* An efetch_pmc that reports an article the archive does not serve as done.
FetchResultLenient(o) ==
    CASE o = "doc" -> [ok |-> TRUE, status |-> "success"]
      [] o = "errwrap" -> [ok |-> TRUE, status |-> "unavailable"]
      [] o = "crash" -> Raised
      [] OTHER -> [ok |-> FALSE, status |-> "error"]

\* The value efetch_pmc returns when an attempt ends the call with outcome o.
FetchResult(o) ==
    CASE o = "doc" -> [ok |-> TRUE, status |-> "success"]
      [] o = "errwrap" -> [ok |-> FALSE, status |-> "unavailable"]
      [] o = "crash" -> Raised
      [] OTHER -> [ok |-> FALSE, status |-> "error"]

\* Whether attempt a of a call with outcome o is followed by another one.
FetchRetriesWrapper(o, a) == o \in Transient \cup {"errwrap"} /\ a < retries - 1
FetchRetriesNot429(o, a) == o \in Transient \ {"s429"} /\ a < retries - 1
FetchRetriesShort(o, a) == o \in Transient /\ a < retries - 2
FetchRetries(o, a) == o \in Transient /\ a < retries - 1

\* The sleep before the next attempt: RETRY_DELAY * (attempt + 1) after a
\* RequestException (line 512), RETRY_DELAY otherwise (lines 448, 469).
FetchDelay(o, a) == IF o = "transport" THEN RETRY_DELAY * (a + 1) ELSE RETRY_DELAY

\* What write_text leaves of the record file.
Written(o, old) ==
    CASE o = "doc" -> "full"
      [] o = "doc_partial" -> "partial"
      [] OTHER -> old

\* out_dir.mkdir(parents=True, exist_ok=True), line 414: the directory after
\* the call; on "blocked" the call raises OSError.
Mkdir(d) == IF d = "absent" THEN "present" ELSE d

\* The state of a thread entering efetch_pmc with argument p.
EnterFetch(t, p) ==
    /\ pmcid' = [pmcid EXCEPT ![t] = p]
    /\ had' = [had EXCEPT ![t] = disk[json_path(p)] # "none"]
    /\ attempt' = [attempt EXCEPT ![t] = 0]
    /\ naps' = [naps EXCEPT ![t] = 0]
    /\ requests' = [requests EXCEPT ![t] = 0]
    /\ sent' = [sent EXCEPT ![t] = <<>>]
    /\ granted' = [granted EXCEPT ![t] = 0]
    /\ calls' = [calls EXCEPT ![t] = 0]
    /\ result' = [result EXCEPT ![t] = None]
    /\ pc' = [pc EXCEPT ![t] = "f_start"]

\* Lines 403-432: out_dir.mkdir, the existence check, and the entry of the
\* retry loop, whose first statement calls rate_limiter.wait().
FetchStart(t) ==
    /\ pc[t] = "f_start"
    /\ Awake(t)
    /\ out_dir' = Mkdir(out_dir)
    /\ \/ \* out_dir.mkdir raises: the destination cannot be created
          /\ Mkdir(out_dir) = "blocked"
          /\ result' = [result EXCEPT ![t] = Raised]
          /\ pc' = [pc EXCEPT ![t] = "f_ret"]
          /\ UNCHANGED <<frame, calls>>
       \/ \* json_path.exists()
          /\ Mkdir(out_dir) # "blocked"
          /\ Exists(json_path(pmcid[t]))
          /\ result' = [result EXCEPT ![t] = [ok |-> TRUE, status |-> "exists"]]
          /\ pc' = [pc EXCEPT ![t] = "f_ret"]
          /\ UNCHANGED <<frame, calls>>
       \/ \* for attempt in range(retries): ... rate_limiter.wait()
          /\ Mkdir(out_dir) # "blocked"
          /\ ~Exists(json_path(pmcid[t]))
          /\ retries > 0
          /\ frame' = [frame EXCEPT ![t] = "efetch_pmc"]
          /\ BeginAttempt(t)
          /\ UNCHANGED result
       \/ \* range(retries) is empty: line 519
          /\ Mkdir(out_dir) # "blocked"
          /\ ~Exists(json_path(pmcid[t]))
          /\ retries <= 0
          /\ result' = [result EXCEPT ![t] = [ok |-> FALSE, status |-> "error"]]
          /\ pc' = [pc EXCEPT ![t] = "f_ret"]
          /\ UNCHANGED <<frame, calls>>
    /\ UNCHANGED <<limVars, sleep, hisVars, argVars, disk, writes, seaVars, runVars>>
    /\ UNCHANGED output_dir
    /\ UNCHANGED <<pmcid, attempt, naps, requests, granted, had>>
    /\ UNCHANGED <<recVars, exit_code>>
    /\ UNCHANGED sent

\* Line 436: wait() has returned and session.get is called: the request
\* leaves, and the thread blocks at "f_get" until the service answers or
\* the request fails, while the other threads go on.
FetchGet(t) ==
    /\ pc[t] = "w_ret"
    /\ frame[t] = "efetch_pmc"
    /\ Awake(t)
    /\ requests' = [requests EXCEPT ![t] = @ + 1]
    /\ sent' = [sent EXCEPT ![t] = pmcid_numeric(pmcid[t])]
    /\ sends' = Record(sends)
    /\ pc' = [pc EXCEPT ![t] = "f_get"]
    /\ UNCHANGED <<limVars, frame, sleep, calls, grants, returns, argVars>>
    /\ UNCHANGED <<pmcid, attempt, naps, granted, had, result>>
    /\ UNCHANGED <<envVars, seaVars, runVars, recVars, exit_code>>

\* Lines 436-517: session.get returns or raises, and everything the attempt
\* does with the answer, up to the retry sleep, the next wait() call, or the
\* return.
FetchAnswer(t) ==
    /\ pc[t] = "f_get"
    /\ \E o \in Replies(requests[t]) :
         LET a == attempt[t]
             p == json_path(pmcid[t])
         IN  /\ disk' = [disk EXCEPT ![p] = Written(o, @)]
             /\ writes' = [writes EXCEPT ![p] = IF Written(o, "none") # "none"
                                                  THEN @ + 1 ELSE @]
             /\ records' = [records EXCEPT ![p] =
                              IF Written(o, "none") = "full"
                              THEN Payload(pmcid[t], fmt, include_text, xml_text)
                              ELSE @]
             /\ IF FetchRetries(o, a)
                THEN /\ sleep' = [sleep EXCEPT ![t] = FetchDelay(o, a)]
                     /\ naps' = [naps EXCEPT ![t] = @ + 1]
                     /\ attempt' = [attempt EXCEPT ![t] = a + 1]
                     /\ BeginAttempt(t)
                     /\ UNCHANGED result
                ELSE /\ result' = [result EXCEPT ![t] = FetchResult(o)]
                     /\ pc' = [pc EXCEPT ![t] = "f_ret"]
                     /\ UNCHANGED <<sleep, naps, attempt, calls>>
    /\ UNCHANGED <<limVars, frame, hisVars, argVars, seaVars, runVars>>
    /\ UNCHANGED <<pmcid, requests, sent, granted, had>>
    /\ UNCHANGED <<out_dir, output_dir>>
    /\ UNCHANGED <<fmt, include_text, xml_text, metadata, plain, managed>>
    /\ UNCHANGED exit_code

\* -------------------------------- examples/utils/manage_text_field.py
\* The utility works on the record files of a destination, one file a call,
\* from a process of its own.

\* json.loads(json_path.read_text()): a record file that is there in full
\* yields its record; read_text raises without the file, json.loads on a
\* file write_text left unfinished.
Loads(p) == disk[p] = "full"

\* except Exception as e: return False, f"error: {e}"
ManageError == [ok |-> FALSE, message |-> "error"]

\* 'text' in data and data['text']
HasTextField(r) == "text" \in r.keys /\ ~r.blank

\* Rewrites of one record file the model follows.
MaxRewrites == 2

\* The record r is written back to file p with the optional keys ks, and
\* the call returns ret when write_text succeeds: the file is rewritten, or
\* write_text raises OSError before the file is opened, or after it was
\* truncated.
WriteBack(p, ks, ret) ==
    \E w \in {"written", "noopen", "partial"} :
        /\ writes[p] < MaxRewrites
        /\ disk' = [disk EXCEPT ![p] = CASE w = "written" -> "full"
                                          [] w = "partial" -> "partial"
                                          [] OTHER -> @]
        /\ writes' = [writes EXCEPT ![p] = IF w = "noopen" THEN @ ELSE @ + 1]
        /\ records' = [records EXCEPT ![p] =
                         IF w = "written" THEN [@ EXCEPT !.keys = ks] ELSE @]
        /\ managed' = IF w = "written" THEN ret ELSE ManageError

\* A call that returns ret and leaves the file as it is.
LeaveFile(ret) ==
    /\ managed' = ret
    /\ UNCHANGED <<disk, writes, records>>

\* add_text_field(json_path), lines 34-54.
add_text_field(p) ==
    /\ IF ~Loads(p) THEN LeaveFile(ManageError)
       ELSE IF HasTextField(records[p])
       THEN LeaveFile([ok |-> FALSE, message |-> "already has text field"])
       ELSE IF "xml" \notin records[p].keys
       THEN LeaveFile([ok |-> FALSE,
                       message |-> "no XML field to generate from"])
       ELSE WriteBack(p, records[p].keys \cup {"text"},
                      [ok |-> TRUE, message |-> "text field added"])
    /\ UNCHANGED <<limVars, thrVars, hisVars, argVars, fetVars, out_dir, output_dir>>
    /\ UNCHANGED <<seaVars, runVars, exit_code>>
    /\ UNCHANGED <<fmt, include_text, xml_text, metadata, plain>>

\* remove_text_field(json_path), lines 57-76.
remove_text_field(p) ==
    /\ IF ~Loads(p) THEN LeaveFile(ManageError)
       ELSE IF "text" \notin records[p].keys
       THEN LeaveFile([ok |-> FALSE, message |-> "no text field to remove"])
       ELSE WriteBack(p, records[p].keys \ {"text"},
                      [ok |-> TRUE, message |-> "removed"])
    /\ UNCHANGED <<limVars, thrVars, hisVars, argVars, fetVars, out_dir, output_dir>>
    /\ UNCHANGED <<seaVars, runVars, exit_code>>
    /\ UNCHANGED <<fmt, include_text, xml_text, metadata, plain>>

\* check_text_field(json_path), lines 79-93.
check_text_field(p) ==
    /\ IF ~Loads(p) THEN LeaveFile(ManageError)
       ELSE IF HasTextField(records[p])
       THEN LeaveFile([ok |-> TRUE, message |-> "has text field"])
       ELSE LeaveFile([ok |-> FALSE, message |-> "no text field"])
    /\ UNCHANGED <<limVars, thrVars, hisVars, argVars, fetVars, out_dir, output_dir>>
    /\ UNCHANGED <<seaVars, runVars, exit_code>>
    /\ UNCHANGED <<fmt, include_text, xml_text, metadata, plain>>

\* ------------------------------------------------------------- esearch_pmc
\* Bound on the length of the identifier list of a search response.
MaxIds == 2

\* The largest count a search response reports.
MaxCount == 3

\* The idlist values of the search responses: any identifiers, repeated or
\* not.
IdLists == UNION {[1..n -> {<<"1">>, <<"2">>}] : n \in 0..MaxIds}

\* What one attempt of esearch_pmc meets:
\*   transport  session.get raises a requests.RequestException
\*   status     a 4xx or 5xx status: raise_for_status raises HTTPError
\*   notjson    resp.json() raises a JSONDecodeError, a ValueError
\*   badcount   a JSON object whose count is a string int() rejects: ValueError
\*   notobject  JSON that is no object (a list, null): data.get raises
\*              AttributeError
\*   nullcount  a JSON object whose count is null: int(None) raises TypeError
\*   ok         a JSON object with an idlist and a count int() accepts
Caught == {"transport", "status", "notjson", "badcount"}
SearchOutcomes == Caught \cup {"notobject", "nullcount", "ok"}

SearchReplies(k) ==
    IF service \in {AnyService, ExactService} THEN SearchOutcomes
    ELSE IF k <= Len(service) THEN {service[k]} ELSE {}

NoSearch == search = "no" /\ pmcids = <<>> /\ total_found = 0

\* except (requests.RequestException, ValueError, KeyError), line 191.
SearchCatches(o) == o \in Caught

\* if attempt < retries - 1, line 193.
SearchRetries(a) == a < retries - 1

\* A backoff that does not grow.
SearchDelayFlat(a) == RETRY_DELAY

\* time.sleep(RETRY_DELAY * (attempt + 1)), line 194.
SearchDelay(a) == RETRY_DELAY * (a + 1)

\* Lines 163-179: the entry of the retry loop, whose first statement calls
\* rate_limiter.wait(); line 199 when range(retries) is empty.
SearchStart(t) ==
    /\ pc[t] = "s_start"
    /\ Awake(t)
    /\ IF retries > 0
       THEN /\ frame' = [frame EXCEPT ![t] = "esearch_pmc"]
            /\ BeginAttempt(t)
            /\ UNCHANGED seaVars
       ELSE /\ search' = "returned"
            /\ pmcids' = <<>>
            /\ total_found' = 0
            /\ pc' = [pc EXCEPT ![t] = "s_ret"]
            /\ UNCHANGED <<frame, calls>>
    /\ UNCHANGED <<limVars, sleep, hisVars, argVars, fetVars, envVars, runVars>>
    /\ UNCHANGED <<recVars, exit_code>>

\* Line 179: wait() has returned and session.get is called: the request
\* leaves, and the thread blocks at "s_get" until the service answers or the
\* request fails, while time passes.
SearchGet(t) ==
    /\ pc[t] = "w_ret"
    /\ frame[t] = "esearch_pmc"
    /\ Awake(t)
    /\ requests' = [requests EXCEPT ![t] = @ + 1]
    /\ sends' = Record(sends)
    /\ pc' = [pc EXCEPT ![t] = "s_get"]
    /\ UNCHANGED <<limVars, frame, sleep, calls, grants, returns, argVars>>
    /\ UNCHANGED <<pmcid, attempt, naps, sent, granted, had, result>>
    /\ UNCHANGED <<envVars, seaVars, runVars, recVars, exit_code>>

\* Lines 179-197: session.get returns or raises, and everything the attempt
\* does with the response, up to the retry sleep, the next wait() call, the
\* return or the exception that leaves esearch_pmc.  c is the count field of
\* the response, -1 when the response has none: line 186 returns
\* int(result.get("count", len(pmcids))), the count the service reports,
\* whatever the length of the idlist.
SearchAnswer(t) ==
    /\ pc[t] = "s_get"
    /\ \E o \in SearchReplies(requests[t]), ids \in IdLists, c \in -1..MaxCount :
         LET a == attempt[t]
         IN  IF o = "ok"
             THEN /\ service = ExactService => c = Len(ids)
                  /\ search' = "returned"
                  /\ pmcids' = ids
                  /\ total_found' = IF c < 0 THEN Len(ids) ELSE c
                  /\ pc' = [pc EXCEPT ![t] = "s_ret"]
                  /\ UNCHANGED <<sleep, naps, attempt, calls>>
             ELSE /\ ids = <<>> /\ c = -1
                  /\ IF ~SearchCatches(o)
                     THEN /\ search' = "raised"
                          /\ pc' = [pc EXCEPT ![t] = "s_ret"]
                          /\ UNCHANGED <<sleep, naps, attempt, calls>>
                          /\ UNCHANGED <<pmcids, total_found>>
                     ELSE IF SearchRetries(a)
                     THEN /\ sleep' = [sleep EXCEPT ![t] = SearchDelay(a)]
                          /\ naps' = [naps EXCEPT ![t] = @ + 1]
                          /\ attempt' = [attempt EXCEPT ![t] = a + 1]
                          /\ BeginAttempt(t)
                          /\ UNCHANGED seaVars
                     ELSE /\ search' = "returned"
                          /\ pmcids' = <<>>
                          /\ total_found' = 0
                          /\ pc' = [pc EXCEPT ![t] = "s_ret"]
                          /\ UNCHANGED <<sleep, naps, attempt, calls>>
    /\ UNCHANGED <<limVars, frame, hisVars, argVars, envVars, runVars>>
    /\ UNCHANGED <<pmcid, requests, sent, granted, had, result>>
    /\ UNCHANGED <<recVars, exit_code>>

\* ------------------------------------------------------ search_and_download
Pending == [ok |-> FALSE, status |-> "pending"]

ZeroStats ==
    [total_found |-> 0, requested |-> 0, successful |-> 0, failed |-> 0,
     skipped |-> 0, unavailable |-> 0, errors |-> 0]

\* The coordinator not running: no pool, no counters.
NoRun ==
    /\ use_concurrent = FALSE
    /\ max_workers = 0
    /\ queue = <<>>
    /\ job = [t \in Threads |-> 0]
    /\ outcome = [i \in 1..MaxIds |-> Pending]
    /\ yielded = {}
    /\ invoked = [i \in 1..MaxIds |-> 0]
    /\ successful = 0 /\ unavailable = 0 /\ errors = 0 /\ skipped = 0
    /\ stats = ZeroStats
    /\ owned_session = TRUE
    /\ session = "open"

\* The locals of a call that has returned.
Leave(t) ==
    /\ pmcid' = [pmcid EXCEPT ![t] = <<>>]
    /\ had' = [had EXCEPT ![t] = FALSE]
    /\ attempt' = [attempt EXCEPT ![t] = 0]
    /\ naps' = [naps EXCEPT ![t] = 0]
    /\ requests' = [requests EXCEPT ![t] = 0]
    /\ sent' = [sent EXCEPT ![t] = <<>>]
    /\ granted' = [granted EXCEPT ![t] = 0]
    /\ calls' = [calls EXCEPT ![t] = 0]
    /\ result' = [result EXCEPT ![t] = None]

\* A coordinator that counts only what efetch_pmc returned.
CountsAsReturned(r, status) ==
    CASE status = "successful" -> r.status = "success"
      [] status = "skipped" -> r.status = "exists"
      [] status = "unavailable" -> r.status = "unavailable"
      [] OTHER -> r.status = "error"

\* A coordinator that counts an article already present as a download.
CountsAsMerged(r, status) ==
    CASE status = "successful" -> r.status \in {"success", "exists"}
      [] status = "skipped" -> FALSE
      [] status = "unavailable" -> r.status = "unavailable"
      [] OTHER -> r.status \notin {"success", "exists", "unavailable"}

\* Lines 662-669 and 699-706, and the except clauses of lines 677-680 and
\* 712-714: the counter an outcome adds to.
CountsAs(r, status) ==
    CASE status = "successful" -> r.status = "success"
      [] status = "skipped" -> r.status = "exists"
      [] status = "unavailable" -> r.status = "unavailable"
      [] OTHER -> r.status \notin {"success", "exists", "unavailable"}

\* A coordinator that counts every call that returned True as successful.
TallyMerged(r) ==
    /\ successful' = successful + (IF r.ok THEN 1 ELSE 0)
    /\ skipped' = skipped + (IF CountsAs(r, "skipped") THEN 1 ELSE 0)
    /\ unavailable' = unavailable + (IF CountsAs(r, "unavailable") THEN 1 ELSE 0)
    /\ errors' = errors + (IF CountsAs(r, "errors") THEN 1 ELSE 0)

\* The counters after one outcome is counted.
Tally(r) ==
    /\ successful' = successful + (IF CountsAs(r, "successful") THEN 1 ELSE 0)
    /\ skipped' = skipped + (IF CountsAs(r, "skipped") THEN 1 ELSE 0)
    /\ unavailable' = unavailable + (IF CountsAs(r, "unavailable") THEN 1 ELSE 0)
    /\ errors' = errors + (IF CountsAs(r, "errors") THEN 1 ELSE 0)

\* A coordinator that counts a search without identifiers as a failure.
EarlyReturnFailed(found) ==
    [ZeroStats EXCEPT !.total_found = found, !.failed = 1, !.errors = 1]

\* Lines 589-620: the DownloadStats returned when the search raised or
\* returned no identifier.
EarlyReturn(found) == [ZeroStats EXCEPT !.total_found = found]

\* A coordinator that uses the pool whenever use_concurrent is set.
UsesPoolAlways == use_concurrent

\* Line 638: if use_concurrent and len(pmcids) > 1
UsesPool == use_concurrent /\ Len(pmcids) > 1

\* A search_and_download that closes whatever session it used.
CloseAlways(owned, ses) == "closed"

\* if owned_session: session.close(), lines 589-590, 607-608 and 741-742.
CloseOwned(owned, ses) == IF owned THEN "closed" ELSE ses

\* Lines 560-577: the entry of search_and_download.  owned_session = session
\* is None, the session is made when the caller gave none, and
\* output_dir.mkdir(parents=True, exist_ok=True) runs outside any try: when
\* the directory cannot be created its exception leaves search_and_download
\* before the search, with no DownloadStats and the session left open.
RunStart ==
    /\ pc[0] = "m_start"
    /\ owned_session' = (session = "none")
    /\ session' = "open"
    /\ output_dir' = Mkdir(output_dir)
    /\ pc' = [pc EXCEPT ![0] = IF Mkdir(output_dir) = "blocked"
                                THEN "m_raised" ELSE "s_start"]
    /\ UNCHANGED <<limVars, frame, sleep, calls, hisVars, argVars, fetVars>>
    /\ UNCHANGED <<disk, writes, out_dir, seaVars, poolVars, cntVars, stats>>
    /\ UNCHANGED <<recVars, exit_code>>

\* Lines 587-656 and 687-689: what follows the search: the early returns,
\* the submission of every identifier to the pool, or the first sequential
\* fetch.
Dispatch ==
    /\ pc[0] = "s_ret"
    /\ Awake(0)
    /\ IF search = "raised" \/ pmcids = <<>>
       THEN /\ stats' = EarlyReturn(total_found)
            /\ pc' = [pc EXCEPT ![0] = "m_done"]
            /\ Leave(0)
            /\ session' = CloseOwned(owned_session, session)
            /\ UNCHANGED <<queue, outcome, invoked>>
       ELSE IF UsesPool
       THEN /\ queue' = [i \in 1..Len(pmcids) |-> i]
            /\ outcome' = [i \in 1..MaxIds |-> Pending]
            /\ pc' = [pc EXCEPT ![0] = "m_collect"]
            /\ Leave(0)
            /\ UNCHANGED <<stats, session, invoked>>
       ELSE /\ EnterFetch(0, pmcids[1])
            /\ invoked' = [invoked EXCEPT ![1] = @ + 1]
            /\ UNCHANGED <<queue, outcome, stats, session>>
    /\ job' = [job EXCEPT ![0] = IF pc'[0] = "f_start" THEN 1 ELSE 0]
    /\ UNCHANGED <<limVars, frame, sleep, hisVars, argVars, envVars, seaVars>>
    /\ UNCHANGED <<use_concurrent, max_workers, yielded, cntVars, owned_session>>
    /\ UNCHANGED <<recVars, exit_code>>

\* A pool thread takes the next task: download_with_delay calls efetch_pmc.
WorkerTake(t) ==
    /\ t \in Workers /\ t <= max_workers
    /\ pc[t] = "idle"
    /\ queue # <<>>
    /\ job' = [job EXCEPT ![t] = Head(queue)]
    /\ queue' = Tail(queue)
    /\ EnterFetch(t, pmcids[Head(queue)])
    /\ invoked' = [invoked EXCEPT ![Head(queue)] = @ + 1]
    /\ UNCHANGED <<limVars, frame, sleep, hisVars, argVars, envVars, seaVars>>
    /\ UNCHANGED <<use_concurrent, max_workers, outcome, yielded, cntVars, stats>>
    /\ UNCHANGED sesVars
    /\ UNCHANGED <<recVars, exit_code>>

\* A pool thread that counts its own outcome when its task ends.
WorkerDoneCounts(t) ==
    /\ t \in Workers
    /\ pc[t] = "f_ret"
    /\ Awake(t)
    /\ outcome' = [outcome EXCEPT ![job[t]] = result[t]]
    /\ Tally(result[t])
    /\ UNCHANGED invoked
    /\ job' = [job EXCEPT ![t] = 0]
    /\ pc' = [pc EXCEPT ![t] = "idle"]
    /\ Leave(t)
    /\ UNCHANGED <<limVars, frame, sleep, hisVars, argVars, envVars, seaVars>>
    /\ UNCHANGED <<use_concurrent, max_workers, queue, yielded, stats>>
    /\ UNCHANGED sesVars
    /\ UNCHANGED <<recVars, exit_code>>

\* The task ends: its future holds what efetch_pmc returned or raised.
WorkerDone(t) ==
    /\ t \in Workers
    /\ pc[t] = "f_ret"
    /\ Awake(t)
    /\ outcome' = [outcome EXCEPT ![job[t]] = result[t]]
    /\ job' = [job EXCEPT ![t] = 0]
    /\ pc' = [pc EXCEPT ![t] = "idle"]
    /\ Leave(t)
    /\ UNCHANGED <<limVars, frame, sleep, hisVars, argVars, envVars, seaVars>>
    /\ UNCHANGED <<use_concurrent, max_workers, queue, yielded, cntVars, stats>>
    /\ UNCHANGED <<invoked, sesVars>>
    /\ UNCHANGED <<recVars, exit_code>>

\* A coordinating thread that does not count a future whose task raised.
CollectSkipsRaised ==
    /\ pc[0] = "m_collect"
    /\ \E i \in (1..Len(pmcids)) \ yielded :
         /\ outcome[i] # Pending
         /\ IF outcome[i] = Raised THEN UNCHANGED cntVars
            ELSE Tally(outcome[i])
         /\ yielded' = yielded \cup {i}
         /\ pc' = [pc EXCEPT ![0] = IF yielded' = 1..Len(pmcids)
                                    THEN "m_finish" ELSE "m_collect"]
    /\ UNCHANGED <<limVars, frame, sleep, calls, hisVars, argVars, fetVars>>
    /\ UNCHANGED <<envVars, seaVars, use_concurrent, max_workers, queue, job>>
    /\ UNCHANGED <<outcome, stats, invoked, sesVars>>
    /\ UNCHANGED <<recVars, exit_code>>

\* Lines 658-680: as_completed yields a finished future, and the coordinating
\* thread counts its outcome.
Collect ==
    /\ pc[0] = "m_collect"
    /\ \E i \in (1..Len(pmcids)) \ yielded :
         /\ outcome[i] # Pending
         /\ Tally(outcome[i])
         /\ yielded' = yielded \cup {i}
         /\ pc' = [pc EXCEPT ![0] = IF yielded' = 1..Len(pmcids)
                                    THEN "m_finish" ELSE "m_collect"]
    /\ UNCHANGED <<limVars, frame, sleep, calls, hisVars, argVars, fetVars>>
    /\ UNCHANGED <<envVars, seaVars, use_concurrent, max_workers, queue, job>>
    /\ UNCHANGED <<outcome, stats, invoked, sesVars>>
    /\ UNCHANGED <<recVars, exit_code>>

\* Lines 687-714: one sequential efetch_pmc call has returned or raised: the
\* coordinating thread counts it and goes on to the next identifier.
SeqNext ==
    /\ pc[0] = "f_ret"
    /\ Awake(0)
    /\ Tally(result[0])
    /\ outcome' = [outcome EXCEPT ![job[0]] = result[0]]
    /\ IF job[0] < Len(pmcids)
       THEN /\ job' = [job EXCEPT ![0] = @ + 1]
            /\ EnterFetch(0, pmcids[job[0] + 1])
            /\ invoked' = [invoked EXCEPT ![job[0] + 1] = @ + 1]
       ELSE /\ job' = [job EXCEPT ![0] = 0]
            /\ pc' = [pc EXCEPT ![0] = "m_finish"]
            /\ Leave(0)
            /\ UNCHANGED invoked
    /\ UNCHANGED <<limVars, frame, sleep, hisVars, argVars, envVars, seaVars>>
    /\ UNCHANGED <<use_concurrent, max_workers, queue, yielded, stats>>
    /\ UNCHANGED sesVars
    /\ UNCHANGED <<recVars, exit_code>>

\* Lines 718-743: the statistics search_and_download returns.
Finish ==
    /\ pc[0] = "m_finish"
    /\ stats' = [total_found |-> total_found,
                 requested |-> Len(pmcids),
                 successful |-> successful,
                 failed |-> unavailable + errors,
                 skipped |-> skipped,
                 unavailable |-> unavailable,
                 errors |-> errors]
    /\ session' = CloseOwned(owned_session, session)
    /\ pc' = [pc EXCEPT ![0] = "m_done"]
    /\ UNCHANGED <<limVars, frame, sleep, calls, hisVars, argVars, fetVars>>
    /\ UNCHANGED <<envVars, seaVars, poolVars, cntVars, owned_session>>
    /\ UNCHANGED <<recVars, exit_code>>

\* ------------------------------------------------------------ cli.main
\* cli.py, lines 133-139: the exit code of the download command.
ExitCode(st) ==
    IF st.successful > 0 THEN 0
    ELSE IF st.skipped > 0 /\ st.errors = 0 THEN 0
    ELSE IF st.requested = 0 THEN 1
    ELSE 2

\* cli.py, lines 118-139: search_and_download has returned to main(), which
\* returns the exit code, or has raised: main() catches nothing and ends
\* with the exception, returning no value.
Main ==
    /\ pc[0] \in {"m_done", "m_raised"}
    /\ exit_code' = IF pc[0] = "m_done" THEN ExitCode(stats) ELSE exit_code
    /\ pc' = [pc EXCEPT ![0] = IF pc[0] = "m_done" THEN "exited" ELSE "raised"]
    /\ UNCHANGED <<limVars, frame, sleep, calls, hisVars, argVars, fetVars>>
    /\ UNCHANGED <<envVars, seaVars, runVars, recVars>>

\* ------------------------------------------------------- specifications
\* Threads sharing one limiter, each calling wait() up to MaxCalls times.
InitLimiter ==
    /\ InitLimiterState
    /\ pc = [t \in Threads |-> "idle"]
    /\ frame = [t \in Threads |-> "caller"]
    /\ sleep = [t \in Threads |-> 0]
    /\ calls = [t \in Threads |-> 0]
    /\ retries = MAX_RETRIES
    /\ service = AnyService
    /\ max_results = MaxIds
    /\ pmcid = [t \in Threads |-> <<>>]
    /\ attempt = [t \in Threads |-> 0]
    /\ naps = [t \in Threads |-> 0]
    /\ requests = [t \in Threads |-> 0]
    /\ sent = [t \in Threads |-> <<>>]
    /\ granted = [t \in Threads |-> 0]
    /\ had = [t \in Threads |-> FALSE]
    /\ result = [t \in Threads |-> None]
    /\ disk = [p \in Paths |-> "none"]
    /\ out_dir = "absent"
    /\ output_dir = "present"
    /\ records = Stored(disk)
    /\ DefaultRecordState
    /\ writes = [p \in Paths |-> 0]
    /\ NoSearch
    /\ NoRun

NextLimiter ==
    \/ Tick
    \/ \E t \in Threads : CallWait(t)
    \/ \E t \in Threads : WaitAcquire(t)
    \/ \E t \in Threads : WaitStamp(t)
    \/ \E t \in Threads : Resume(t)

SpecLimiter == InitLimiter /\ [][NextLimiter]_vars

\* One efetch_pmc call of thread 0, on a destination holding any records,
\* against a service whose answers are fixed in advance and whose document
\* is the plain article, the one with an abstract or the one with keywords.
Scripts(n) == [1..n -> Outcomes]

InitFetch ==
    /\ InitLimiterState
    /\ retries \in 0..MAX_RETRIES
    /\ service \in Scripts(retries)
    /\ max_results = MaxIds
    /\ disk \in [Paths -> {"none", "full"}]
    /\ out_dir \in Dirs(disk)
    /\ output_dir = "present"
    /\ records = Stored(disk)
    /\ fmt = "text"
    /\ include_text = TRUE
    /\ xml_text \in {DefaultDoc, AbstractDoc, KeywordsDoc}
    /\ metadata = NoMetadata
    /\ exit_code = 0
    /\ plain = NoText
    /\ managed = NoManaged
    /\ writes = [p \in Paths |-> 0]
    /\ \E p \in Ids :
         /\ pmcid = [t \in Threads |-> IF t = 0 THEN p ELSE <<>>]
         /\ had = [t \in Threads |-> t = 0 /\ disk[json_path(p)] # "none"]
    /\ pc = [t \in Threads |-> IF t = 0 THEN "f_start" ELSE "idle"]
    /\ frame = [t \in Threads |-> "caller"]
    /\ sleep = [t \in Threads |-> 0]
    /\ calls = [t \in Threads |-> 0]
    /\ attempt = [t \in Threads |-> 0]
    /\ naps = [t \in Threads |-> 0]
    /\ requests = [t \in Threads |-> 0]
    /\ sent = [t \in Threads |-> <<>>]
    /\ granted = [t \in Threads |-> 0]
    /\ result = [t \in Threads |-> None]
    /\ NoSearch
    /\ NoRun

NextFetch ==
    \/ Tick
    \/ FetchStart(0)
    \/ WaitAcquire(0)
    \/ WaitStamp(0)
    \/ FetchGet(0)
    \/ FetchAnswer(0)

SpecFetch == InitFetch /\ [][NextFetch]_vars

\* One esearch_pmc call of thread 0 against a service whose answers are
\* fixed in advance.
InitSearch ==
    /\ InitLimiterState
    /\ retries \in 0..MAX_RETRIES
    /\ service \in [1..retries -> SearchOutcomes]
    /\ max_results \in 1..MaxIds
    /\ disk = [p \in Paths |-> "none"]
    /\ out_dir = "absent"
    /\ output_dir = "present"
    /\ records = Stored(disk)
    /\ DefaultRecordState
    /\ writes = [p \in Paths |-> 0]
    /\ pmcid = [t \in Threads |-> <<>>]
    /\ had = [t \in Threads |-> FALSE]
    /\ pc = [t \in Threads |-> IF t = 0 THEN "s_start" ELSE "idle"]
    /\ frame = [t \in Threads |-> "caller"]
    /\ sleep = [t \in Threads |-> 0]
    /\ calls = [t \in Threads |-> 0]
    /\ attempt = [t \in Threads |-> 0]
    /\ naps = [t \in Threads |-> 0]
    /\ requests = [t \in Threads |-> 0]
    /\ sent = [t \in Threads |-> <<>>]
    /\ granted = [t \in Threads |-> 0]
    /\ result = [t \in Threads |-> None]
    /\ NoSearch
    /\ NoRun

NextSearch ==
    \/ Tick
    \/ SearchStart(0)
    \/ WaitAcquire(0)
    \/ WaitStamp(0)
    \/ SearchGet(0)
    \/ SearchAnswer(0)

SpecSearch == InitSearch /\ [][NextSearch]_vars

\* The rate_limit arguments of the runs.
RateLimits == {0, 1}

\* One search_and_download run, with a session of the caller's or without
\* one, on a base directory that is there, can be created or cannot, and a
\* keyword directory holding any records, against the service sv.
RunInit(sv) ==
    /\ min_interval \in {RateLimiterInit(r) : r \in RateLimits}
    /\ last_request \in -min_interval..0
    /\ lock = NoThread
    /\ grants = NoEvents
    /\ returns = NoEvents
    /\ sends = NoEvents
    /\ retries = MAX_RETRIES
    /\ service = sv
    /\ max_results = MaxIds
    /\ disk \in {[p \in Paths |-> IF p \in P THEN "full" ELSE "none"] :
                  P \in {{}, {json_path(<<"1">>)}}}
    /\ output_dir \in Dirs(disk)
    /\ out_dir \in CASE output_dir = "present" -> Dirs(disk)
                   [] output_dir = "absent" -> {"absent"}
                   [] OTHER -> {"blocked"}
    /\ records = Stored(disk)
    /\ DefaultRecordState
    /\ writes = [p \in Paths |-> 0]
    /\ pmcid = [t \in Threads |-> <<>>]
    /\ had = [t \in Threads |-> FALSE]
    /\ pc = [t \in Threads |-> IF t = 0 THEN "m_start" ELSE "idle"]
    /\ frame = [t \in Threads |-> "caller"]
    /\ sleep = [t \in Threads |-> 0]
    /\ calls = [t \in Threads |-> 0]
    /\ attempt = [t \in Threads |-> 0]
    /\ naps = [t \in Threads |-> 0]
    /\ requests = [t \in Threads |-> 0]
    /\ sent = [t \in Threads |-> <<>>]
    /\ granted = [t \in Threads |-> 0]
    /\ result = [t \in Threads |-> None]
    /\ NoSearch
    /\ use_concurrent \in BOOLEAN
    /\ max_workers \in IF use_concurrent THEN Workers ELSE {Cardinality(Workers)}
    /\ queue = <<>>
    /\ job = [t \in Threads |-> 0]
    /\ outcome = [i \in 1..MaxIds |-> Pending]
    /\ yielded = {}
    /\ invoked = [i \in 1..MaxIds |-> 0]
    /\ successful = 0 /\ unavailable = 0 /\ errors = 0 /\ skipped = 0
    /\ stats = ZeroStats
    /\ owned_session = FALSE
    /\ session \in {"none", "open"}

\* The run against a service that may answer anything.
Init == RunInit(AnyService)

Next ==
    \/ Tick
    \/ RunStart
    \/ SearchStart(0)
    \/ SearchGet(0)
    \/ SearchAnswer(0)
    \/ Dispatch
    \/ \E t \in Workers : WorkerTake(t)
    \/ \E t \in Threads : FetchStart(t)
    \/ \E t \in Threads : WaitAcquire(t)
    \/ \E t \in Threads : WaitStamp(t)
    \/ \E t \in Threads : FetchGet(t)
    \/ \E t \in Threads : FetchAnswer(t)
    \/ \E t \in Workers : WorkerDone(t)
    \/ Collect
    \/ SeqNext
    \/ Finish
    \/ Main

Spec == Init /\ [][Next]_vars

\* The same run when every network call returns or times out, every sleep
\* ends and every thread that can go on does: the clock advances, and each
\* step of each thread is taken once it stays possible.
Fairness ==
    /\ WF_vars(Tick)
    /\ WF_vars(RunStart)
    /\ WF_vars(SearchStart(0))
    /\ WF_vars(SearchGet(0))
    /\ WF_vars(SearchAnswer(0))
    /\ WF_vars(Dispatch)
    /\ WF_vars(Collect)
    /\ WF_vars(SeqNext)
    /\ WF_vars(Finish)
    /\ WF_vars(Main)
    /\ \A t \in Workers : WF_vars(WorkerTake(t)) /\ WF_vars(WorkerDone(t))
    /\ \A t \in Threads : /\ WF_vars(FetchStart(t))
                           /\ WF_vars(WaitAcquire(t))
                           /\ WF_vars(WaitStamp(t))
                           /\ WF_vars(FetchGet(t))
                           /\ WF_vars(FetchAnswer(t))

\* The runs that create their session, on a destination that holds nothing
\* yet or cannot be created, and a limiter of one second that has not been
\* used, against a service whose counts are the lengths of its idlists.
InitLive ==
    /\ RunInit(ExactService)
    /\ min_interval = 1 /\ last_request = -1
    /\ session = "none"
    /\ out_dir # "present"

SpecLive == InitLive /\ [][Next]_vars /\ Fairness

\* One efetch_pmc call of thread 0 that gets at most one answer, for every
\* fmt and include_text, on a limiter without interval.
RecordDocs ==
    {x \in PlainTrees : /\ x.root = "article" /\ ~x.article
                   /\ x.jmeta.nlm_ta = Missing /\ x.jmeta.iso_abbrev = Missing
                   /\ x.jmeta.title # "" /\ x.ameta.title # ""}
    \cup {[DefaultDoc EXCEPT !.ameta.abstract = a, !.ameta.kwds = k] :
            a \in {AbstractDoc.ameta.abstract,
                   [there |-> TRUE, pieces |-> <<>>]},
            k \in {<<>>, KeywordsDoc.ameta.kwds}}

InitRecord ==
    /\ min_interval = RateLimiterInit(0)
    /\ last_request = 0
    /\ lock = NoThread
    /\ grants = NoEvents
    /\ returns = NoEvents
    /\ sends = NoEvents
    /\ retries \in 0..1
    /\ service \in Scripts(retries)
    /\ max_results = MaxIds
    /\ disk \in [Paths -> {"none", "full"}]
    /\ out_dir \in Dirs(disk)
    /\ output_dir = "present"
    /\ records = Stored(disk)
    /\ writes = [p \in Paths |-> 0]
    /\ fmt \in Fmts
    /\ include_text \in BOOLEAN
    /\ xml_text \in RecordDocs
    /\ metadata = NoMetadata
    /\ exit_code = 0
    /\ plain = NoText
    /\ managed = NoManaged
    /\ \E p \in Ids :
         /\ pmcid = [t \in Threads |-> IF t = 0 THEN p ELSE <<>>]
         /\ had = [t \in Threads |-> t = 0 /\ disk[json_path(p)] # "none"]
    /\ pc = [t \in Threads |-> IF t = 0 THEN "f_start" ELSE "idle"]
    /\ frame = [t \in Threads |-> "caller"]
    /\ sleep = [t \in Threads |-> 0]
    /\ calls = [t \in Threads |-> 0]
    /\ attempt = [t \in Threads |-> 0]
    /\ naps = [t \in Threads |-> 0]
    /\ requests = [t \in Threads |-> 0]
    /\ sent = [t \in Threads |-> <<>>]
    /\ granted = [t \in Threads |-> 0]
    /\ result = [t \in Threads |-> None]
    /\ NoSearch
    /\ NoRun

NextRecord ==
    \/ FetchStart(0)
    \/ FetchGet(0)
    \/ FetchAnswer(0)

SpecRecord == InitRecord /\ [][NextRecord]_vars

\* The same call for identifier 1, answered with an article or with a
\* document without text, and calls of the text-field utility on the record
\* files of the destination before, during and after it.
InitManage ==
    /\ InitRecord
    /\ retries = 1
    /\ service = <<"doc">>
    /\ pmcid[0] = <<"1">>
    /\ xml_text \in {AbstractDoc, BlankDoc}

NextManage ==
    \/ NextRecord
    \/ \E p \in Paths : add_text_field(p)
    \/ \E p \in Paths : remove_text_field(p)
    \/ \E p \in Paths : check_text_field(p)

SpecManage == InitManage /\ [][NextManage]_vars

\* One extract_metadata_from_pmc_xml call on any argument.
InitExtract ==
    /\ min_interval = RateLimiterInit(0)
    /\ last_request = 0
    /\ lock = NoThread
    /\ grants = NoEvents
    /\ returns = NoEvents
    /\ sends = NoEvents
    /\ retries = MAX_RETRIES
    /\ service = AnyService
    /\ max_results = MaxIds
    /\ disk = [p \in Paths |-> "none"]
    /\ out_dir = "absent"
    /\ output_dir = "present"
    /\ records = Stored(disk)
    /\ writes = [p \in Paths |-> 0]
    /\ fmt = "text"
    /\ include_text = TRUE
    /\ xml_text \in Inputs
    /\ metadata = NoMetadata
    /\ exit_code = 0
    /\ plain = NoText
    /\ managed = NoManaged
    /\ pmcid = [t \in Threads |-> <<>>]
    /\ had = [t \in Threads |-> FALSE]
    /\ pc = [t \in Threads |-> IF t = 0 THEN "x_start" ELSE "idle"]
    /\ frame = [t \in Threads |-> "caller"]
    /\ sleep = [t \in Threads |-> 0]
    /\ calls = [t \in Threads |-> 0]
    /\ attempt = [t \in Threads |-> 0]
    /\ naps = [t \in Threads |-> 0]
    /\ requests = [t \in Threads |-> 0]
    /\ sent = [t \in Threads |-> <<>>]
    /\ granted = [t \in Threads |-> 0]
    /\ result = [t \in Threads |-> None]
    /\ NoSearch
    /\ NoRun

NextExtract == Extract

SpecExtract == InitExtract /\ [][NextExtract]_vars

\* One strip_xml_tags call on any markup.
InitStrip ==
    /\ min_interval = RateLimiterInit(0)
    /\ last_request = 0
    /\ lock = NoThread
    /\ grants = NoEvents
    /\ returns = NoEvents
    /\ sends = NoEvents
    /\ retries = MAX_RETRIES
    /\ service = AnyService
    /\ max_results = MaxIds
    /\ disk = [p \in Paths |-> "none"]
    /\ out_dir = "absent"
    /\ output_dir = "present"
    /\ records = Stored(disk)
    /\ writes = [p \in Paths |-> 0]
    /\ fmt = "text"
    /\ include_text = TRUE
    /\ xml_text = DefaultDoc
    /\ metadata = NoMetadata
    /\ exit_code = 0
    /\ plain \in {[NoText EXCEPT !.xml = x] : x \in Markups}
    /\ managed = NoManaged
    /\ pmcid = [t \in Threads |-> <<>>]
    /\ had = [t \in Threads |-> FALSE]
    /\ pc = [t \in Threads |-> IF t = 0 THEN "t_start" ELSE "idle"]
    /\ frame = [t \in Threads |-> "caller"]
    /\ sleep = [t \in Threads |-> 0]
    /\ calls = [t \in Threads |-> 0]
    /\ attempt = [t \in Threads |-> 0]
    /\ naps = [t \in Threads |-> 0]
    /\ requests = [t \in Threads |-> 0]
    /\ sent = [t \in Threads |-> <<>>]
    /\ granted = [t \in Threads |-> 0]
    /\ result = [t \in Threads |-> None]
    /\ NoSearch
    /\ NoRun

NextStrip == StripTags

SpecStrip == InitStrip /\ [][NextStrip]_vars

\* C1 as stated: any two returns from wait() are at least min_interval apart.
C1_ReturnsApart == returns.gap >= min_interval

\* C1, amended: any two stamps written to _last_request by wait() calls of
\* any threads are at least min_interval apart.
C1_GrantsApart == grants.gap >= min_interval

\* Two threads have each completed a wait() on a limiter with an interval.
C1_Witness ==
    /\ min_interval > 0
    /\ \E t, u \in Threads :
         /\ t # u
         /\ calls[t] >= 1 /\ pc[t] = "idle"
         /\ calls[u] >= 1 /\ pc[u] = "idle"

\* ------------------------------------------- claims on search_and_download
\* C2 as stated: any two requests of a run, the search request and the fetch
\* requests of any threads, are sent at least min_interval apart.
C2_SendsApart == sends.gap >= min_interval

\* C2, amended: every request is sent under a stamp wait() wrote for it, one
\* stamp a request, and any two stamps of the run are at least min_interval
\* apart.
C2_GrantsApart ==
    /\ grants.gap >= min_interval
    /\ min_interval > 0 =>
          \A t \in Threads :
              /\ requests[t] <= granted[t]
              /\ granted[t] <= requests[t] + 1

\* Two pool threads have sent their requests less than min_interval apart.
C2_Witness ==
    /\ min_interval > 0
    /\ sends.gap < min_interval
    /\ \E t, u \in Workers : t # u /\ requests[t] >= 1 /\ requests[u] >= 1

\* Thread t is inside a wait() call it made for its next request.
InWait(t) == pc[t] \in {"w_lock", "w_stamp", "w_ret"}

\* C11: every GET of esearch_pmc and efetch_pmc, on first attempts and on
\* retries, follows a wait() call of its own by the same thread: a thread has
\* called wait() once for each GET it has sent, once more while it is inside
\* wait(), and the wait() calls it has completed on a limiter with an
\* interval are the GETs it has sent, and the one it is about to send.
C11_WaitBeforeEveryGet ==
    \A t \in Threads :
        /\ calls[t] = requests[t] + (IF InWait(t) THEN 1 ELSE 0)
        /\ min_interval > 0 =>
              granted[t] = requests[t] + (IF pc[t] = "w_ret" THEN 1 ELSE 0)

\* A pool thread's efetch_pmc call has ended after a retry, on a limiter
\* with an interval.
C11_Witness ==
    /\ min_interval > 0
    /\ \E t \in Workers :
         pc[t] = "f_ret" /\ requests[t] >= 2 /\ calls[t] = requests[t]

Returned == pc[0] = "m_done"
Positions == 1..Len(pmcids)
With(S) == Cardinality({i \in Positions : outcome[i].status \in S})

\* C3: when search_and_download returns, requested is the number of
\* identifiers the search returned, requested = successful + skipped +
\* unavailable + errors, and failed = unavailable + errors.
C3_StatsAddUp ==
    Returned =>
        /\ stats.requested = Len(pmcids)
        /\ stats.requested = stats.successful + stats.skipped
                                + stats.unavailable + stats.errors
        /\ stats.failed = stats.unavailable + stats.errors
        /\ (stats.unavailable = 0 /\ stats.errors = 0) =>
              (stats.requested = stats.successful + stats.skipped
               /\ stats.failed = 0)

\* A pooled run over two identifiers has returned, one of them failed.
C3_Witness ==
    /\ Returned /\ use_concurrent
    /\ stats.requested = 2 /\ stats.successful = 1 /\ stats.errors = 1

\* C5 as stated: no record file is written more than once.
C5_WrittenOnce == \A p \in Paths : writes[p] <= 1

\* C6: an efetch_pmc call that raises does not end the run: when the run
\* returns, every identifier of the search has had its call, and errors
\* counts each call that raised or returned 'error' exactly once.
C6_RaisedIsCounted ==
    (Returned /\ With({"raised"}) > 0) =>
        /\ \A i \in Positions : outcome[i] # Pending
        /\ stats.errors = With({"raised", "error"})
        /\ stats.successful = With({"success"})
        /\ stats.skipped = With({"exists"})
        /\ stats.unavailable = With({"unavailable"})

\* A run has returned in which the first identifier's call raised and the
\* second identifier was downloaded.
C6_Witness ==
    /\ Returned /\ Len(pmcids) = 2
    /\ outcome[1] = Raised
    /\ outcome[2].status = "success"

\* C14 as stated: the download command exits non-zero only when nothing was
\* requested, or when nothing was downloaded and nothing was already
\* present: a run with a downloaded or an already present article exits 0.
C14_ExitZeroOnAnyRecord ==
    pc[0] = "exited" =>
        /\ exit_code # 0 =>
              \/ stats.requested = 0
              \/ stats.successful = 0 /\ stats.skipped = 0
        /\ (stats.successful > 0 \/ stats.skipped > 0) => exit_code = 0

\* Thread t is inside an efetch_pmc call.
Fetching(t) ==
    pc[t] \in {"f_start", "f_get", "f_ret"} \/ (InWait(t) /\ frame[t] = "efetch_pmc")

\* C15: when the search returns no identifier, efetch_pmc is never called,
\* and search_and_download returns stats whose requested, successful,
\* failed, skipped, unavailable and errors are all 0.
C15_EmptySearchZeroStats ==
    (search = "returned" /\ pmcids = <<>>) =>
        /\ \A t \in Threads : ~Fetching(t)
        /\ \A i \in 1..MaxIds : outcome[i] = Pending
        /\ pc[0] \in {"s_ret", "m_done", "exited"}
        /\ pc[0] \in {"m_done", "exited"} =>
              /\ stats.requested = 0 /\ stats.successful = 0
              /\ stats.failed = 0 /\ stats.skipped = 0
              /\ stats.unavailable = 0 /\ stats.errors = 0

\* A run whose search returned no identifier has returned.
C15_Witness == Returned /\ search = "returned" /\ pmcids = <<>>

\* C16: in concurrent mode only the coordinating thread changes the
\* counters, in a step of its own in which no pool thread moves, and when
\* it has counted every future each counter is the number of identifiers
\* with that outcome: no increment is lost or made twice.
C16_CountersOwnedByCoordinator ==
    /\ [][cntVars' # cntVars =>
             /\ pc[0] \in {"m_collect", "f_ret"}
             /\ \A t \in Workers : pc'[t] = pc[t] /\ result'[t] = result[t]]_vars
    /\ []((UsesPool /\ pc[0] = "m_finish") =>
             /\ successful = With({"success"})
             /\ skipped = With({"exists"})
             /\ unavailable = With({"unavailable"})
             /\ errors = With({"error", "raised"}))

\* The coordinating thread has counted the futures of two pool threads.
C16_Witness ==
    /\ UsesPool /\ pc[0] = "m_finish" /\ max_workers = 2
    /\ successful + skipped + unavailable + errors = 2

\* C17: pool threads work only when use_concurrent is set and the search
\* returned more than one identifier; otherwise the coordinating thread
\* fetches the identifiers itself, in the order of the search, each after
\* the fetch of the one before has returned or raised.
C17_PoolOnlyForSeveral ==
    /\ (pc[0] = "m_collect" \/ queue # <<>> \/ \E t \in Workers : pc[t] # "idle") =>
          use_concurrent /\ Len(pmcids) > 1
    /\ (Fetching(0) /\ search = "returned") =>
          /\ ~(use_concurrent /\ Len(pmcids) > 1)
          /\ job[0] \in Positions
          /\ pmcid[0] = pmcids[job[0]]
          /\ \A i \in Positions : outcome[i] # Pending <=> i < job[0]

\* A sequential run is at the end of the fetch of its second identifier.
C17_Witness ==
    /\ ~use_concurrent /\ Len(pmcids) = 2
    /\ pc[0] = "f_ret" /\ job[0] = 2 /\ outcome[1] # Pending

\* ------------------------------------------------ claims on one efetch_pmc
FetchDone == pc[0] = "f_ret"
Target == json_path(pmcid[0])
Untouched == /\ \A p \in Paths : writes[p] = 0
             /\ disk[Target] = IF had[0] THEN "full" ELSE "none"

\* The k-th request of the call has been answered, or has failed.
Answered(k) == requests[0] > k \/ (requests[0] = k /\ pc[0] # "f_get")

\* C4: a call made while the record file of the identifier's display form
\* exists calls wait() never, sends no request, leaves the file as it is, and
\* returns (True, 'exists').
C4_ExistsShortCircuit ==
    had[0] =>
        /\ calls[0] = 0
        /\ requests[0] = 0
        /\ Untouched
        /\ FetchDone => result[0] = [ok |-> TRUE, status |-> "exists"]

\* A call on an existing record file has returned.
C4_Witness == had[0] /\ FetchDone /\ retries > 0

\* C7: when the k-th attempt, whatever k, gets the error wrapper, the call
\* ends there with (False, 'unavailable'): k requests in all, no sleep after
\* the k-th, no file written.
C7_WrapperIsFinal ==
    \A k \in 1..Len(service) :
        (service[k] = "errwrap" /\ Answered(k)) =>
            /\ FetchDone
            /\ result[0] = [ok |-> FALSE, status |-> "unavailable"]
            /\ requests[0] = k
            /\ naps[0] = k - 1
            /\ sleep[0] = 0
            /\ Untouched

\* The error wrapper arrived on a second attempt.
C7_Witness ==
    /\ Len(service) >= 2 /\ service[2] = "errwrap"
    /\ requests[0] = 2 /\ FetchDone

\* C8: status 429 on the first attempt and a well-formed document that is no
\* error wrapper on the second, persisted without I/O error: the call returns
\* (True, 'success') after exactly 2 requests, the record file written once.
C8_RetryThenSuccess ==
    (/\ FetchDone
     /\ requests[0] >= 1
     /\ Len(service) >= 2
     /\ service[1] = "s429" /\ service[2] = "doc") =>
        /\ result[0] = [ok |-> TRUE, status |-> "success"]
        /\ requests[0] = 2
        /\ disk[Target] = "full"
        /\ writes[Target] = 1

\* A call has ended after 429 then a document.
C8_Witness ==
    /\ FetchDone /\ requests[0] = 2 /\ naps[0] = 1
    /\ service[1] = "s429" /\ service[2] = "doc"

\* Every attempt of the call meets a transient failure.
AllTransient == \A k \in 1..Len(service) : service[k] \in Transient

\* C9: a call that enters the retry loop and meets a transient failure on
\* every attempt returns (False, 'error') after exactly `retries` requests,
\* and writes no file.
C9_TransientExhausts ==
    (FetchDone /\ ~had[0] /\ result[0] # Raised /\ AllTransient) =>
        /\ result[0] = [ok |-> FALSE, status |-> "error"]
        /\ requests[0] = retries
        /\ Untouched

\* Three attempts of mixed transient failures have ended a call.
C9_Witness ==
    /\ FetchDone /\ AllTransient /\ requests[0] = MAX_RETRIES
    /\ service[1] = "malformed" /\ service[2] = "transport" /\ service[3] = "s429"

\* The answers with which persisting the record fails: write_text raises.
WriteFails == {"doc_noopen", "doc_partial"}

\* C12 as stated: a local I/O failure of a call, creating the destination
\* directory or writing the file, ends the call there with (False, 'error'):
\* no request follows it.
C12_IOFailureIsError ==
    /\ (FetchDone /\ out_dir = "blocked") =>
          /\ result[0] = [ok |-> FALSE, status |-> "error"]
          /\ requests[0] = 0
    /\ \A k \in 1..Len(service) :
          (service[k] \in WriteFails /\ Answered(k)) =>
              /\ FetchDone
              /\ result[0] = [ok |-> FALSE, status |-> "error"]
              /\ requests[0] = k

\* C13 as stated: after a call that returned for an identifier without a
\* record, the record file exists if and only if the call returned
\* 'success', 'unavailable' and 'error' leave no file, complete or partial,
\* and the call has written at most one file.
C13_FileIffSuccess ==
    (FetchDone /\ ~had[0] /\ result[0] # Raised) =>
        /\ disk[Target] # "none" <=> result[0].status = "success"
        /\ result[0].status \in {"unavailable", "error"} =>
              disk[Target] = "none"
        /\ Cardinality({p \in Paths : writes[p] > 0}) <= 1

\* ------------------------------------------------- claims on the record
\* The call of thread 0 has persisted a record.
Persisted == FetchDone /\ result[0] = [ok |-> TRUE, status |-> "success"]

\* The caller asked for the text alone and excluded the text.
Suppressed == ~include_text /\ fmt \in {"text", "json", "txt"}

\* C18 as stated: a persisted record carries pmcid in display form, source,
\* download_date and metadata, and for every fmt a caller can pass it
\* carries xml or text, unless the caller suppressed both.
C18_RecordHasContent ==
    Persisted =>
        /\ RequiredKeys \subseteq records[Target].keys
        /\ records[Target].pmcid = Target
        /\ ~Suppressed => records[Target].keys \cap {"xml", "text"} # {}

\* C19: with include_text true, fmt fixes the optional fields of a
\* persisted record: 'xml' gives xml alone, 'text' and the legacy aliases
\* 'json' and 'txt' give text alone, 'both' gives xml and text.
C19_FmtFixesFields ==
    (Persisted /\ include_text) =>
        /\ fmt = "xml" =>
              records[Target].keys \ RequiredKeys = {"xml"}
        /\ fmt \in {"text", "json", "txt"} =>
              records[Target].keys \ RequiredKeys = {"text"}
        /\ fmt = "both" =>
              records[Target].keys \ RequiredKeys = {"xml", "text"}

\* A record was persisted under the legacy alias 'json', with its text.
C19_Witness ==
    /\ Persisted /\ include_text /\ fmt = "json"
    /\ "text" \in records[Target].keys

\* ---------------------------------------------- claims on the extractor
\* C20: extract_metadata_from_pmc_xml never raises; an argument that does
\* not parse as XML yields the empty record, and so does a parsed document
\* without article element or without front section, nothing having been
\* gathered before.
C20_ExtractNeverRaises ==
    pc[0] = "x_ret" =>
        /\ ~metadata.raised
        /\ xml_text.kind # "tree" => metadata.value = {}
        /\ (/\ xml_text.kind = "tree"
            /\ \/ xml_text.root # "article" /\ ~xml_text.article
               \/ ~xml_text.front) => metadata.value = {}

\* The extractor has returned from an argument that is no text.
C20_Witness == pc[0] = "x_ret" /\ xml_text = NotText /\ metadata.value = {}

\* ----------------------------------------------- claims on one esearch_pmc
SearchDone == pc[0] = "s_ret"
AllFail == \A k \in 1..Len(service) : service[k] # "ok"

\* C10: esearch_pmc never raises, and when every attempt fails (transport
\* error, error status, or a body that does not yield the result list and
\* count) it returns ([], 0) after exactly `retries` attempts.
C10_SearchNeverRaises ==
    /\ search # "raised"
    /\ (SearchDone /\ AllFail) =>
          /\ search = "returned"
          /\ pmcids = <<>> /\ total_found = 0
          /\ requests[0] = retries

\* ------------------------------------- claims on the fields of the record
\* The extractor has returned from a document whose article-meta it read.
ReadMeta ==
    /\ pc[0] = "x_ret"
    /\ xml_text.kind = "tree"
    /\ HasArticle(xml_text) /\ xml_text.front /\ xml_text.ameta.present

\* The positions of the article-id entries of type T.
OfType(T) ==
    {i \in DOMAIN xml_text.ameta.ids : xml_text.ameta.ids[i].type = T}

\* C21: for each identifier type (pmid, pmcid, doi), when the article-id
\* list holds several entries of the type, the metadata record stores the
\* value of the first one in document order.
C21_FirstIdWins ==
    ReadMeta =>
        \A T \in {"pmid", "pmcid", "doi"} :
            OfType(T) # {} =>
                \E i \in OfType(T) :
                    /\ \A j \in OfType(T) : i <= j
                    /\ <<T, xml_text.ameta.ids[i].value>> \in metadata.value

\* The nested pub_date of the record, empty when the key is absent.
Nested ==
    IF \E e \in metadata.value : e[1] = "pub_date"
    THEN (CHOOSE e \in metadata.value : e[1] = "pub_date")[2] ELSE {}

\* C22: each of year, month and day that extraction resolves is stored as a
\* flat field and, with the same value, under the nested pub_date: a flat
\* date field is present exactly when its nested counterpart is.
C22_DatesMirrored ==
    pc[0] = "x_ret" =>
        \A k \in {"year", "month", "day"} :
            /\ (\E e \in metadata.value : e[1] = k)
                   <=> (\E e \in Nested : e[1] = k)
            /\ \A e \in metadata.value :
                   e[1] = k => <<k, e[2]>> \in Nested

\* The contributors of type author with a name element, in document order.
RECURSIVE AuthorNames(_, _)
AuthorNames(cs, i) ==
    IF i > Len(cs) THEN <<>>
    ELSE (IF cs[i].type = "author" /\ cs[i].name.there
          THEN <<cs[i].name>> ELSE <<>>) \o AuthorNames(cs, i + 1)

\* surname + " " + given-names, else surname + " " + initials, else the
\* surname alone, each part as the document gives it.
Joined(n) ==
    IF n.given # <<>> THEN n.surname \o <<" ">> \o n.given
    ELSE IF n.initials # <<>> THEN n.surname \o <<" ">> \o n.initials
    ELSE n.surname

\* The same of the trimmed parts, trimmed.
JoinedTrimmed(n) ==
    Joined([there |-> TRUE, surname |-> Strip(n.surname),
            given |-> Strip(n.given), initials |-> Strip(n.initials)])

RECURSIVE NonEmpty(_)
NonEmpty(names) ==
    IF names = <<>> THEN <<>>
    ELSE (IF Head(names) # <<>> THEN <<Head(names)>> ELSE <<>>)
         \o NonEmpty(Tail(names))

\* The authors field of the record, empty when the key is absent.
Authors ==
    IF \E e \in metadata.value : e[1] = "authors"
    THEN (CHOOSE e \in metadata.value : e[1] = "authors")[2] ELSE <<>>

\* C23 as stated: the authors list holds, in document order, one display
\* name per contributor of type author that yields a name, the name being
\* surname + ' ' + given-names, else surname + ' ' + initials, else the
\* surname alone; the field is absent when no name results.
C23_AuthorsJoined ==
    ReadMeta =>
        LET names == AuthorNames(xml_text.ameta.contribs, 1)
        IN  /\ Authors = NonEmpty([i \in DOMAIN names |-> Joined(names[i])])
            /\ (\E e \in metadata.value : e[1] = "authors") <=> Authors # <<>>

\* C23 amended: the authors list holds, in document order, one display name
\* per contributor of type author that yields a name, the name being built
\* of the trimmed parts (surname + ' ' + given-names, else surname + ' ' +
\* initials, else the surname alone) and then trimmed itself; contributors
\* of other types, without name element or yielding the empty name are
\* skipped, and the field is absent when no name results.
C23_AuthorsJoinedTrimmed ==
    ReadMeta =>
        LET names == AuthorNames(xml_text.ameta.contribs, 1)
        IN  /\ Authors = NonEmpty([i \in DOMAIN names |->
                                      Strip(JoinedTrimmed(names[i]))])
            /\ (\E e \in metadata.value : e[1] = "authors") <=> Authors # <<>>

\* An editor, an author with initials only and an author with both names
\* were read: the record lists the two authors in document order.
C23_Witness ==
    /\ ReadMeta
    /\ Len(xml_text.ameta.contribs) = 2
    /\ xml_text.ameta.contribs[1].type = "author"
    /\ xml_text.ameta.contribs[1].name.there
    /\ xml_text.ameta.contribs[1].name.surname = <<"R">>
    /\ xml_text.ameta.contribs[1].name.given = <<>>
    /\ xml_text.ameta.contribs[1].name.initials = <<"I">>
    /\ xml_text.ameta.contribs[2].type = "author"
    /\ xml_text.ameta.contribs[2].name.there
    /\ xml_text.ameta.contribs[2].name.surname = <<"D">>
    /\ xml_text.ameta.contribs[2].name.given = <<"J">>
    /\ Authors = << <<"R", " ", "I">>, <<"D", " ", "J">> >>


\* ------------------------------------------ claims on the search's bounds
\* C24: the identifier sequence esearch_pmc returns never has more than
\* max_results elements, whatever the remote service answers.
C24_IdsCapped == search = "returned" => Len(pmcids) <= max_results


\* ------------------------------------------- claims on a limiter turned off
\* C25: a RateLimiter built with a zero or negative min_interval never
\* blocks: no caller of wait() ever sleeps, waits for the lock or holds it,
\* and no stamp is written, for any number of concurrent callers.
C25_NoIntervalNeverBlocks ==
    min_interval <= 0 =>
        /\ lock = NoThread
        /\ last_request = 0
        /\ grants = NoEvents
        /\ \A t \in Threads :
              /\ pc[t] \in {"idle", "w_ret"}
              /\ sleep[t] = 0

\* On a limiter without interval two threads are returning from wait() at
\* the same moment, a third having called it MaxCalls times already.
C25_Witness ==
    /\ min_interval = 0
    /\ pc[1] = "w_ret" /\ pc[2] = "w_ret"
    /\ pc[0] = "idle" /\ calls[0] = MaxCalls
    /\ returns.gap = 0


\* ------------------------------------------ claims on the search's backoff
\* C27: in esearch_pmc the sleep after the k-th failed attempt (k counted
\* from 1, k < retries) lasts k * RETRY_DELAY, no sleep follows the final
\* failed attempt, and the first successful attempt returns at once, so one
\* search issues at most `retries` requests.
C27_SearchBackoff ==
    /\ [][(pc[0] = "s_get" /\ pc'[0] # "s_get") =>
            LET k == requests[0]
            IN  /\ (service[k] \in Caught /\ k < retries) =>
                       /\ sleep'[0] = k * RETRY_DELAY
                       /\ pc'[0] # "s_ret"
                /\ (service[k] \in Caught /\ k >= retries) =>
                       /\ sleep'[0] = 0
                       /\ pc'[0] = "s_ret" /\ search' = "returned"
                /\ service[k] = "ok" =>
                       /\ sleep'[0] = 0
                       /\ pc'[0] = "s_ret" /\ search' = "returned"]_vars
    /\ [](requests[0] <= retries)

\* The second of three attempts has just failed: the call sleeps
\* 2 * RETRY_DELAY seconds before the third.
C27_Witness ==
    /\ retries = 3
    /\ requests[0] = 2 /\ naps[0] = 2
    /\ service[1] \in Caught /\ service[2] \in Caught
    /\ sleep[0] = 2 * RETRY_DELAY


\* --------------------------------- claims on the two forms of an identifier
\* The numeric identifiers of the model, and the two forms of one.
Numerics == {<<"1">>, <<"2">>}
Prefixed(n) == <<"PMC">> \o n

\* C28: efetch_pmc called with the numeric identifier n or with 'PMC' + n
\* sends the numeric id n to the fetch endpoint and uses the record file
\* PMC<n>.json only, so that a record written through one form is reported
\* as 'exists' through the other.
C28_BothFormsAgree ==
    \A n \in Numerics :
        pmcid[0] \in {n, Prefixed(n)} =>
            /\ requests[0] > 0 => sent[0] = n
            /\ \A p \in Paths \ {Prefixed(n)} : writes[p] = 0
            /\ (FetchDone /\ result[0].status = "success") =>
                  /\ disk[Prefixed(n)] = "full"
                  /\ records[Prefixed(n)].pmcid = Prefixed(n)
            /\ (FetchDone /\ writes[Prefixed(n)] = 0
                    /\ disk[Prefixed(n)] # "none") =>
                  /\ result[0] = [ok |-> TRUE, status |-> "exists"]
                  /\ requests[0] = 0

\* A call with the prefixed form 'PMC1' has sent the numeric id 1 and written
\* the record file PMC1.json.
C28_Witness ==
    /\ pmcid[0] = Prefixed(<<"1">>)
    /\ FetchDone /\ result[0].status = "success"
    /\ sent[0] = <<"1">>
    /\ disk[Prefixed(<<"1">>)] = "full"


\* ------------------------------------------- claims on the single counters
\* The coordinating thread counts a result in this step: the sequential
\* call's, or a future's that as_completed yields.
Counting == \/ pc[0] = "f_ret" /\ outcome' # outcome
            \/ yielded' # yielded

\* The result counted in the step.
Counted ==
    IF pc[0] = "f_ret" THEN result[0]
    ELSE outcome[CHOOSE i \in yielded' \ yielded : TRUE]

\* C29: each identifier's result increments exactly one counter: 'success'
\* only successful, 'exists' only skipped, 'unavailable' only unavailable,
\* 'error' or a raised exception only errors; an identifier already present
\* is never counted in successful, and no counter moves otherwise.
C29_OneCounterPerResult ==
    /\ [][Counting =>
            /\ Counted.status
                   \in {"success", "exists", "unavailable", "error", "raised"}
            /\ successful' = successful
                   + (IF Counted.status = "success" THEN 1 ELSE 0)
            /\ skipped' = skipped
                   + (IF Counted.status = "exists" THEN 1 ELSE 0)
            /\ unavailable' = unavailable
                   + (IF Counted.status = "unavailable" THEN 1 ELSE 0)
            /\ errors' = errors
                   + (IF Counted.status \in {"error", "raised"} THEN 1 ELSE 0)]_vars
    /\ [][cntVars' # cntVars => Counting]_vars

\* A run has returned whose first identifier was already present and whose
\* second one was downloaded: one skipped, one successful.
C29_Witness ==
    /\ Returned /\ Len(pmcids) = 2
    /\ outcome[1].status = "exists" /\ outcome[2].status = "success"
    /\ stats.skipped = 1 /\ stats.successful = 1


\* ------------------------------------ claims on what efetch_pmc returns
\* C30: every value efetch_pmc returns is a pair (ok, status) with status
\* one of 'success', 'exists', 'unavailable', 'error', and ok is true
\* exactly when status is 'success' or 'exists', for every response sequence
\* and every retries value including 0; before it returns there is no value.
C30_ReturnsPair ==
    /\ (FetchDone /\ result[0] # Raised) =>
          /\ result[0].status \in {"success", "exists", "unavailable", "error"}
          /\ result[0].ok \in BOOLEAN
          /\ result[0].ok <=> result[0].status \in {"success", "exists"}
    /\ ~FetchDone => result[0] = None

\* A call with retries = 0 on a fresh identifier has returned
\* (False, 'error') without a request.
C30_Witness ==
    /\ FetchDone /\ retries = 0
    /\ requests[0] = 0
    /\ result[0] = [ok |-> FALSE, status |-> "error"]


\* ----------------------------------------------- claims on strip_xml_tags
\* The angle brackets of s occur only as tag delimiters: each "<" opens a
\* tag that encloses at least one character, none of them a bracket, and
\* that the next ">" closes; no ">" stands outside a tag.  inside tells
\* whether s begins inside a tag, n how many characters the tag holds so far.
RECURSIVE TagsOnly(_, _, _)
TagsOnly(s, inside, n) ==
    IF s = <<>> THEN ~inside
    ELSE IF Head(s) = "<" THEN ~inside /\ TagsOnly(Tail(s), TRUE, 0)
    ELSE IF Head(s) = ">" THEN inside /\ n > 0 /\ TagsOnly(Tail(s), FALSE, 0)
    ELSE TagsOnly(Tail(s), inside, IF inside THEN n + 1 ELSE 0)

\* C26: for markup whose angle brackets occur only as tag delimiters,
\* strip_xml_tags returns text with no '<' or '>' remaining, with no run of
\* two or more whitespace characters, and with no leading or trailing
\* whitespace.
C26_StrippedIsClean ==
    (plain.done /\ TagsOnly(plain.xml, FALSE, 0)) =>
        LET t == plain.text
        IN  /\ \A i \in DOMAIN t : t[i] \notin {"<", ">"}
            /\ \A i \in 1..(Len(t) - 1) :
                   ~(t[i] \in Whitespace /\ t[i + 1] \in Whitespace)
            /\ t # <<>> => (t[1] \notin Whitespace /\ t[Len(t)] \notin Whitespace)

\* A letter, a tag, a newline and a letter were given: the two letters come
\* back with one space between them.
C26_Witness ==
    /\ plain.done
    /\ plain.xml = <<"a", "<", "a", ">", "\n", "a">>
    /\ plain.text = <<"a", " ", "a">>


\* ------------------------------------------------- claims on the session
\* C33: on every return path of search_and_download (search failure, empty
\* result, completed batch) a session the function created itself has been
\* closed, and a session supplied by the caller is never closed.
C33_SessionClosedIffOwned ==
    /\ (pc[0] \in {"m_done", "exited"} /\ owned_session) => session = "closed"
    /\ (pc[0] # "m_start" /\ ~owned_session) => session = "open"

\* A run that created its session has returned after its search raised, the
\* session closed.
C33_Witness ==
    /\ Returned /\ search = "raised"
    /\ owned_session /\ session = "closed"


\* ----------------------------------------------- claims on the two modes
\* The statistics the identifier list and the per-identifier outcomes fix,
\* whatever the mode, the worker count and the order of completion.
StatsOf ==
    [total_found |-> total_found,
     requested |-> Len(pmcids),
     successful |-> With({"success"}),
     failed |-> With({"unavailable", "error", "raised"}),
     skipped |-> With({"exists"}),
     unavailable |-> With({"unavailable"}),
     errors |-> With({"error", "raised"})]

\* C31: for the same identifier list and the same per-identifier outcomes,
\* concurrent mode with any worker count and any completion order returns
\* the same requested, successful, skipped, unavailable, errors and failed
\* values as sequential mode: the values are those the list and the outcomes
\* fix.
C31_ModesAgree ==
    (Returned /\ search = "returned" /\ pmcids # <<>>) =>
        /\ \A i \in Positions : outcome[i] # Pending
        /\ stats = StatsOf

\* A pooled run of two workers has returned, the first identifier not served
\* and the call for the second one having raised.
C31_Witness ==
    /\ Returned /\ UsesPool /\ max_workers = 2
    /\ outcome[1].status = "unavailable" /\ outcome[2] = Raised
    /\ stats.unavailable = 1 /\ stats.errors = 1 /\ stats.failed = 2

\* A sequential run over the same list has returned with the same outcomes.
SameOutcomesSequential ==
    /\ Returned /\ ~UsesPool /\ Len(pmcids) = 2
    /\ outcome[1].status = "unavailable" /\ outcome[2] = Raised
    /\ stats.unavailable = 1 /\ stats.errors = 1 /\ stats.failed = 2


\* ------------------------------------------------ claims on termination
\* C32 as stated: when every network call returns or times out and every
\* sleep ends, search_and_download eventually returns in both modes, for any
\* identifier list and any worker count of at least 1; no thread stays
\* blocked forever on the RateLimiter lock, no identifier is fetched twice,
\* and by the return efetch_pmc has been invoked exactly once for each
\* identifier the search returned.
C32_RunReturns ==
    /\ <>(pc[0] = "exited")
    /\ \A t \in Threads : (pc[t] = "w_lock") ~> (pc[t] # "w_lock")
    /\ [](\A i \in 1..MaxIds : invoked[i] <= 1)
    /\ []((pc[0] \in {"m_done", "exited"} /\ search = "returned") =>
             \A i \in 1..MaxIds : invoked[i] = (IF i \in Positions THEN 1 ELSE 0))

\* C32, amended: under the same assumptions search_and_download eventually
\* returns, in both modes, for any identifier list and any worker count of
\* at least 1, unless output_dir cannot be created: then, and only then, it
\* raises, before the search, with no request sent and no efetch_pmc call.
\* No thread stays blocked forever on the RateLimiter lock, no identifier is
\* fetched twice, and by the return efetch_pmc has been invoked exactly once
\* for each identifier the search returned.
C32_RunReturnsOrRaisesAtEntry ==
    /\ <>(pc[0] = (IF output_dir = "blocked" THEN "raised" ELSE "exited"))
    /\ [](pc[0] \in {"m_raised", "raised"} =>
             /\ output_dir = "blocked" /\ search = "no"
             /\ \A t \in Threads : requests[t] = 0 /\ calls[t] = 0
             /\ \A i \in 1..MaxIds : invoked[i] = 0)
    /\ [](pc[0] \in {"s_start", "m_done", "exited"} => output_dir = "present")
    /\ \A t \in Threads : (pc[t] = "w_lock") ~> (pc[t] # "w_lock")
    /\ [](\A i \in 1..MaxIds : invoked[i] <= 1)
    /\ []((pc[0] \in {"m_done", "exited"} /\ search = "returned") =>
             \A i \in 1..MaxIds : invoked[i] = (IF i \in Positions THEN 1 ELSE 0))

\* A pooled run on a limiter with an interval has returned, with one
\* efetch_pmc call for each of its two identifiers.
C32_Witness ==
    /\ Returned /\ UsesPool /\ min_interval > 0
    /\ Len(pmcids) = 2
    /\ invoked[1] = 1 /\ invoked[2] = 1

====
